---------------------------- MODULE Spec2Model ----------------------------
(***************************************************************************)
(* Voter-roll OCR repair pipeline (src/ocr): the tiered field parsers, the *)
(* two repair scripts (repair.py: Level 1 from the cached report and Level *)
(* 2 via Google Cloud Vision; final_repair.py: the blind-parse sweep), the *)
(* first extraction pass (extractor.py) and the report builder             *)
(* (test-gcv.py).                                                          *)
(*                                                                         *)
(* A text is a sequence of symbols.  A symbol is a one-character string    *)
(* for ASCII characters, "b0".."b9" for the Bengali digits, "nl" for the   *)
(* newline, "danda" for the Bengali danda, a two-letter string ("ka",      *)
(* "ri", ...) for a Bengali letter and a whole word for each Bengali       *)
(* keyword the regular expressions look for:                               *)
(*   "nam" (Name), "voter" + "nong" (Voter No), "pita" (Father),           *)
(*   "swami" (Husband), "mata" (Mother), "pesha" (Occupation),             *)
(*   "jonmo" (Birth), "thikana" (Address), "elakar" (Area).                *)
(* A pandas NaN cell and the empty string are both the empty sequence.     *)
(***************************************************************************)
EXTENDS Integers, Sequences, FiniteSets, TLC

\* ------------------------------------------------------------------------
\* Characters
\* ------------------------------------------------------------------------

AsciiDigits == {"0", "1", "2", "3", "4", "5", "6", "7", "8", "9"}

BnDigits == {"b0", "b1", "b2", "b3", "b4", "b5", "b6", "b7", "b8", "b9"}

\* the character class [0-9০-৯]
Digits == AsciiDigits \cup BnDigits

\* the character class [a-zA-Z] (the ASCII letters the texts of the model use)
AsciiLetters ==
  {"E", "r", "o", "x", "n", "a", "R", "A", "W", "G", "C", "V", "P", "B", "j", "p", "g"}

\* the character class \s
Ws == {" ", "nl"}

\* str.maketrans("0123456789", "০১২৩৪৫৬৭৮৯")
BnOf ==
  [c \in AsciiDigits |->
     CASE c = "0" -> "b0" [] c = "1" -> "b1" [] c = "2" -> "b2"
       [] c = "3" -> "b3" [] c = "4" -> "b4" [] c = "5" -> "b5"
       [] c = "6" -> "b6" [] c = "7" -> "b7" [] c = "8" -> "b8"
       [] c = "9" -> "b9"]

\* the value of a digit, ASCII or Bengali, as int() reads it
DigitVal ==
  [c \in Digits |->
     CASE c \in {"0", "b0"} -> 0 [] c \in {"1", "b1"} -> 1
       [] c \in {"2", "b2"} -> 2 [] c \in {"3", "b3"} -> 3
       [] c \in {"4", "b4"} -> 4 [] c \in {"5", "b5"} -> 5
       [] c \in {"6", "b6"} -> 6 [] c \in {"7", "b7"} -> 7
       [] c \in {"8", "b8"} -> 8 [] c \in {"9", "b9"} -> 9]

\* ------------------------------------------------------------------------
\* String helpers (Python str methods and the regular-expression pieces)
\* ------------------------------------------------------------------------

\* the element of a one-element set: One({e(v) : v \in {x}}) is e with v = x
One(S) == CHOOSE r \in S : TRUE

SetMin(S) == CHOOSE x \in S : \A y \in S : x <= y

SetMax(S) == CHOOSE x \in S : \A y \in S : y <= x

\* s[i:], 1-based
From(s, i) == SubSeq(s, i, Len(s))

\* str.strip()
Strip(s) ==
  One({IF keep = {} THEN <<>> ELSE SubSeq(s, SetMin(keep), SetMax(keep)) :
         keep \in {{i \in 1..Len(s) : s[i] \notin Ws}}})

\* str.replace(c, d) for single characters
ReplaceChar(s, c, d) == [i \in 1..Len(s) |-> IF s[i] = c THEN d ELSE s[i]]

\* \s* (greedy) from position i: the first position that is not whitespace
SkipWs(s, i) ==
  SetMin({j \in i..(Len(s) + 1) : j = Len(s) + 1 \/ s[j] \notin Ws})

\* [:;]?\s* from position j
AfterColon(s, j) ==
  SkipWs(s, IF j <= Len(s) /\ s[j] \in {":", ";"} THEN j + 1 ELSE j)

\* \s*[:;]?\s* from position i: the position where the capture starts
AfterLabel(s, i) == AfterColon(s, SkipWs(s, i))

\* the length of the run of characters of class cls that starts at i
RunLen(s, i, cls) ==
  SetMin({j \in i..(Len(s) + 1) : j = Len(s) + 1 \/ s[j] \notin cls}) - i

\* the run of characters of class cls that starts at i, hi of them at most
RunAt(s, i, cls, hi) ==
  One({SubSeq(s, i, i + (IF n > hi THEN hi ELSE n) - 1) : n \in {RunLen(s, i, cls)}})

\* [cls]{lo,hi} searched from the left: <<position, length>>, or <<0, 0>>
FindRun(s, cls, lo, hi) ==
  One({IF at = {} THEN <<0, 0>>
       ELSE <<SetMin(at), Len(RunAt(s, SetMin(at), cls, hi))>> :
         at \in {{i \in 1..Len(s) : RunLen(s, i, cls) >= lo}}})

\* the lookahead (?=\s+(?:k1|k2|...)|$) at position k
StopAt(s, k, stops) ==
  \/ k = Len(s) + 1
  \/ /\ k <= Len(s)
     /\ s[k] \in Ws
     /\ \E q \in {SkipWs(s, k)} : q <= Len(s) /\ s[q] \in stops

\* what a search returns: whether it matched, and the text it captured
NoMatch == [found |-> FALSE, val |-> <<>>]

\* a search whose capture cannot be empty
Match(v) == [found |-> v # <<>>, val |-> v]

\* (.*?)(?=\s+(?:stops)|$) from position b, stripped
CaptureFrom(s, b, stops) ==
  Strip(SubSeq(s, b, SetMin({k \in b..(Len(s) + 1) : StopAt(s, k, stops)}) - 1))

\* label\s*[:;]?\s*(.*?)(?=\s+(?:stops)|$) searched from the left, on a text
\* without newlines: the capture, stripped
LabelCapture(s, labels, stops) ==
  One({IF at = {} THEN NoMatch
       ELSE [found |-> TRUE,
             val |-> CaptureFrom(s, AfterLabel(s, SetMin(at) + 1), stops)] :
         at \in {{p \in 1..Len(s) : s[p] \in labels}}})

\* ([0-9০-৯]{2}[/.\-][0-9০-৯]{2}[/.\-][0-9০-৯]{4}) at position i
DateAt(s, i) ==
  /\ i + 9 <= Len(s)
  /\ \A d \in {0, 1, 3, 4, 6, 7, 8, 9} : s[i + d] \in Digits
  /\ \A d \in {2, 5} : s[i + d] \in {"/", ".", "-"}

\* the same, searched from the left
FindDate(s) ==
  One({IF at = {} THEN <<>> ELSE SubSeq(s, SetMin(at), SetMin(at) + 9) :
         at \in {{i \in 1..Len(s) : DateAt(s, i)}}})

\* ^.*?([0-9০-৯]{3,4}): the first run of 3 digits on the first line, and a
\* fourth digit when one follows
FindSerial(s) ==
  One({IF at = {} THEN <<>> ELSE RunAt(s, SetMin(at), Digits, 4) :
         at \in {{i \in 1..Len(s) :
                    /\ RunLen(s, i, Digits) >= 3
                    /\ \A j \in 1..(i - 1) : s[j] # "nl"}}})

\* the dict of the captures that matched
AsDict(c) == [k \in {f \in DOMAIN c : c[f].found} |-> c[k].val]

\* ------------------------------------------------------------------------
\* repair.py: to_bengali_digits, clean_text, robust_parse
\* ------------------------------------------------------------------------

\* a slip: only the first character is translated
to_bengali_digits_first(text) ==
  [i \in 1..Len(text) |->
     IF i = 1 /\ text[i] \in AsciiDigits THEN BnOf[text[i]] ELSE text[i]]

to_bengali_digits(text) ==
  [i \in 1..Len(text) |-> IF text[i] \in AsciiDigits THEN BnOf[text[i]] ELSE text[i]]

\* a capture with its digits normalized
Norm(c) == [found |-> c.found, val |-> to_bengali_digits(c.val)]

\* .replace("নাম-", "নাম:") and the like: a dash right after the label
FixDash(s, labels) ==
  [i \in 1..Len(s) |->
     IF i > 1 /\ s[i] = "-" /\ s[i - 1] \in labels THEN ":" ELSE s[i]]

clean_text(text) ==
  Strip(FixDash(ReplaceChar(ReplaceChar(ReplaceChar(text, "nl", " "), "|", " "),
                            "I", " "),
                {"nam", "pita", "mata"}))

\* ভোটার\s*নং\s*[:;]?\s*([0-9০-৯a-zA-Z]+) at position p
VoterLabelAt(s, p) ==
  /\ s[p] = "voter"
  /\ \E q \in {SkipWs(s, p + 1)} :
       /\ q <= Len(s)
       /\ s[q] = "nong"
       /\ RunLen(s, AfterLabel(s, q + 1), Digits \cup AsciiLetters) >= 1

\* the same, searched from the left: the capture, or "" without a match
VoterLabelled(s) ==
  One({IF at = {} THEN <<>>
       ELSE RunAt(s, AfterLabel(s, SkipWs(s, SetMin(at) + 1) + 1),
                  Digits \cup AsciiLetters, Len(s)) :
         at \in {{p \in 1..Len(s) : VoterLabelAt(s, p)}}})

\* the first run of 10 to 18 digits
VoterRun(s) ==
  One({IF m[1] = 0 THEN <<>> ELSE SubSeq(s, m[1], m[1] + m[2] - 1) :
         m \in {FindRun(s, Digits, 10, 18)}})

\* the label first, the digit run as the fallback
FirstNonEmpty(a, b) == IF a # <<>> THEN a ELSE b

\* robust_parse on the cleaned text: the eight searches
robust_captures(t) ==
  [k \in {"Serial", "Name", "Voter No", "Father/Husband", "Mother",
          "Occupation", "DOB", "Address"} |->
     CASE k = "Serial" -> Norm(Match(FindSerial(t)))
       [] k = "Name" -> LabelCapture(t, {"nam"}, {"voter", "pita", "swami"})
       [] k = "Voter No" ->
            Norm(Match(FirstNonEmpty(VoterLabelled(t), VoterRun(t))))
       [] k = "Father/Husband" -> LabelCapture(t, {"pita", "swami"}, {"mata"})
       [] k = "Mother" -> LabelCapture(t, {"mata"}, {"pesha"})
       [] k = "Occupation" -> LabelCapture(t, {"pesha"}, {"jonmo"})
       [] k = "DOB" -> Norm(Match(FindDate(t)))
       [] k = "Address" -> Norm(LabelCapture(t, {"thikana"}, {}))]

robust_parse(raw_text) == AsDict(robust_captures(clean_text(raw_text)))

\* ------------------------------------------------------------------------
\* final_repair.py: blind_parse
\* ------------------------------------------------------------------------

\* the characters of s at the positions of keep, in order
KeepAt(s, keep) ==
  [k \in 1..Cardinality(keep) |->
     s[CHOOSE i \in keep : Cardinality({j \in keep : j <= i}) = k]]

\* re.sub(r'(l1|l2|...)[trail]*', '', s): every label and the run of trail
\* characters after it are removed
RemoveLabels(s, labels, trail) ==
  KeepAt(s, {i \in 1..Len(s) :
               ~ \/ s[i] \in labels
                 \/ /\ s[i] \in trail
                    /\ \E p \in 1..(i - 1) :
                         /\ s[p] \in labels
                         /\ \A j \in (p + 1)..i : s[j] \in trail})

\* a slip: the serial stays in front of the name
DropSerialNone(s) == s

\* re.sub(r'^[0-9০-৯]{3,4}[.\s]*', '', s)
DropSerial(s) ==
  One({IF n < 3 THEN s ELSE From(s, n + 1 + RunLen(s, n + 1, {"."} \cup Ws)) :
         n \in {Len(RunAt(s, 1, Digits, 4))}})

\* sep occurs in t at position i
OccursAt(t, sep, i) ==
  i + Len(sep) - 1 <= Len(t) /\ SubSeq(t, i, i + Len(sep) - 1) = sep

\* text.split(sep)[1], sep being known to occur first at position i
SecondPart(t, sep, i) ==
  SubSeq(t, i + Len(sep),
         SetMin({j \in (i + Len(sep))..(Len(t) + 1) :
                   j = Len(t) + 1 \/ OccursAt(t, sep, j)}) - 1)

\* the name: what stands before the voter number, less the serial and labels
blind_name(before_part) ==
  Strip(RemoveLabels(DropSerial(before_part),
                     {"nam", "voter", "elakar", "nong"},
                     {":", ";", "-"} \cup Ws))

\* the father: what follows the voter number up to the next label
blind_father(after_part) ==
  Strip(RemoveLabels(
          SubSeq(after_part, 1,
                 SetMin({k \in 1..(Len(after_part) + 1) :
                           StopAt(after_part, k, {"mata", "pesha", "swami"})}) - 1),
          {"pita", "swami"}, {":", ";", "-"} \cup Ws))

\* blind_parse on the flattened text, m being the match of the voter number
blind_captures(text, m) ==
  [k \in {"Name", "Voter No", "Father/Husband", "DOB", "Address"} |->
     CASE k = "Voter No" ->
            IF m[1] = 0 THEN NoMatch
            ELSE Norm(Match(SubSeq(text, m[1], m[1] + m[2] - 1)))
       [] k = "Name" ->
            IF m[1] = 0 THEN NoMatch
            ELSE Match(blind_name(Strip(SubSeq(text, 1, m[1] - 1))))
       [] k = "Father/Husband" ->
            IF m[1] = 0 THEN NoMatch
            ELSE [found |-> TRUE,
                  val |-> blind_father(Strip(SecondPart(
                            text, SubSeq(text, m[1], m[1] + m[2] - 1), m[1])))]
       [] k = "DOB" -> Norm(Match(FindDate(text)))
       [] k = "Address" -> Norm(LabelCapture(text, {"thikana"}, {}))]

\* blind_parse on the flattened text
blind_text(text) == AsDict(blind_captures(text, FindRun(text, Digits, 10, 18)))

blind_parse(raw_text) == blind_text(Strip(ReplaceChar(raw_text, "nl", " ")))

\* ------------------------------------------------------------------------
\* extractor.py: parse_with_regex
\* ------------------------------------------------------------------------

\* \s*[:;]?\s* taking a whitespace, c colons and b whitespace after label p,
\* with a character of the line left for the capture
LineSplitOk(s, p, a, c, b) ==
  /\ \A j \in (p + 1)..(p + a) : j <= Len(s) /\ s[j] \in Ws
  /\ c = 1 => (p + a + 1 <= Len(s) /\ s[p + a + 1] \in {":", ";"})
  /\ \A j \in (p + a + c + 1)..(p + a + c + b) : j <= Len(s) /\ s[j] \in Ws
  /\ p + a + c + b + 1 <= Len(s)
  /\ s[p + a + c + b + 1] # "nl"

\* the ways \s*[:;]?\s* can match after label p: whitespace, colons, whitespace
LineSplits(s, p) ==
  UNION {{<<a, c, b>> :
            b \in 0..(IF p + a + c + 1 > Len(s) THEN 0
                      ELSE RunLen(s, p + a + c + 1, Ws))} :
           a \in 0..(IF p + 1 > Len(s) THEN 0 ELSE RunLen(s, p + 1, Ws)),
           c \in {0, 1}}

\* label\s*[:;]?\s*([^\n\r]+) at label position p.  The capture needs one
\* character at least, so the engine gives back what \s* and [:;]? took
\* (greedy choices first) until one is left for it.
LineCaptureAt(s, p) ==
  One({IF cands = {} THEN <<>>
       ELSE One({RunAt(s, p + t[1] + t[2] + t[3] + 1,
                       {s[j] : j \in 1..Len(s)} \ {"nl"}, Len(s)) :
                   t \in {u \in cands :
                            \A w \in cands :
                              (w[1] * 2 + w[2]) * (Len(s) + 1) + w[3]
                                <= (u[1] * 2 + u[2]) * (Len(s) + 1) + u[3]}}) :
         cands \in {{t \in LineSplits(s, p) :
                       LineSplitOk(s, p, t[1], t[2], t[3])}}})

\* the same, searched from the left: the capture, stripped
LineCapture(s, labels) ==
  One({IF at = {} THEN <<>> ELSE Strip(LineCaptureAt(s, SetMin(at))) :
         at \in {{p \in 1..Len(s) : s[p] \in labels /\ LineCaptureAt(s, p) # <<>>}}})

\* raw.split("জন্ম")[0]
BeforeJonmo(s) ==
  SubSeq(s, 1, SetMin({i \in 1..(Len(s) + 1) : i = Len(s) + 1 \/ s[i] = "jonmo"}) - 1)

\* ঠিকানা\s*[:;]?\s*(.*) with re.DOTALL: the rest of the text
AddressRest(s) ==
  One({IF at = {} THEN <<>>
       ELSE Strip(ReplaceChar(From(s, AfterLabel(s, SetMin(at) + 1)), "nl", " ")) :
         at \in {{p \in 1..Len(s) : s[p] = "thikana"}}})

\* parse_with_regex after its replacements: the eight fields
regex_fields(text) ==
  [k \in {"Serial", "Name", "Voter No", "Father/Husband", "Mother",
          "Occupation", "DOB", "Address"} |->
     CASE k = "Serial" -> to_bengali_digits(FindSerial(text))
       [] k = "Name" -> LineCapture(text, {"nam"})
       [] k = "Voter No" -> to_bengali_digits(VoterRun(text))
       [] k = "Father/Husband" -> LineCapture(text, {"pita", "swami"})
       [] k = "Mother" -> LineCapture(text, {"mata"})
       [] k = "Occupation" -> Strip(BeforeJonmo(LineCapture(text, {"pesha"})))
       [] k = "DOB" -> to_bengali_digits(FindDate(text))
       [] k = "Address" -> to_bengali_digits(AddressRest(text))]

\* the fields whose absence parse_with_regex reports
MissingChecked == {"Serial", "Name", "Voter No", "Mother", "DOB", "Address"}

\* parse_with_regex: the fields and the missing ones
parse_with_regex(text) ==
  One({[data |-> data, missing |-> {k \in MissingChecked : data[k] = <<>>}] :
         data \in {regex_fields(ReplaceChar(ReplaceChar(text, "|", "danda"),
                                            "I", "danda"))}})

\* ------------------------------------------------------------------------
\* parser.py: parse_bengali_row
\* ------------------------------------------------------------------------

\* ^.*?([0-9০-৯]{3,4})[.\s]: the first run of 3 or 4 digits on the first
\* line that a dot or a whitespace follows
StrictSerial(s) ==
  One({IF at = {} THEN <<>> ELSE RunAt(s, SetMin(at), Digits, 4) :
         at \in {{i \in 1..Len(s) :
                    /\ RunLen(s, i, Digits) \in {3, 4}
                    /\ i + RunLen(s, i, Digits) <= Len(s)
                    /\ s[i + RunLen(s, i, Digits)] \in Ws \cup {"."}
                    /\ \A j \in 1..(i - 1) : s[j] # "nl"}}})

\* a slip: the end of the text ends a capture, too
StrictStopAtOrEnd(s, k, stops, loose) ==
  \/ k = Len(s) + 1
  \/ /\ k <= Len(s)
     /\ s[k] \in Ws \/ loose
     /\ \E q \in {SkipWs(s, k)} : q <= Len(s) /\ s[q] \in stops

\* the lookaheads (?=\s+stop) and, loose, (?=[,;]?\s*stop) at position k
StrictStopAt(s, k, stops, loose) ==
  /\ k <= Len(s)
  /\ IF loose
     THEN \E q \in {SkipWs(s, IF s[k] \in {",", ";"} THEN k + 1 ELSE k)} :
            q <= Len(s) /\ s[q] \in stops
     ELSE /\ s[k] \in Ws
          /\ \E q \in {SkipWs(s, k)} : q <= Len(s) /\ s[q] \in stops

\* (.*?)(?=stop) from position b: where the capture ends, on the same line
StrictEnds(s, b, stops, loose) ==
  {k \in b..(Len(s) + 1) :
     /\ StrictStopAt(s, k, stops, loose)
     /\ \A j \in b..(k - 1) : s[j] # "nl"}

\* \s*[:;]?\s* taking a whitespace, c colons and b whitespace after label p
LabelSplitOk(s, p, a, c, b) ==
  /\ \A j \in (p + 1)..(p + a) : j <= Len(s) /\ s[j] \in Ws
  /\ c = 1 => (p + a + 1 <= Len(s) /\ s[p + a + 1] \in {":", ";"})
  /\ \A j \in (p + a + c + 1)..(p + a + c + b) : j <= Len(s) /\ s[j] \in Ws

\* the ways label\s*[:;]?\s*(.*?)(?=stop) matches at label position p: what
\* \s*, [:;]? and \s* take, with an end for the capture
StrictSplits(s, p, stops, loose) ==
  {t \in LineSplits(s, p) :
     /\ LabelSplitOk(s, p, t[1], t[2], t[3])
     /\ StrictEnds(s, p + t[1] + t[2] + t[3] + 1, stops, loose) # {}}

\* the match at label position p: the greedy choices come first
StrictCaptureAt(s, p, stops, loose) ==
  One({SubSeq(s, p + t[1] + t[2] + t[3] + 1,
              SetMin(StrictEnds(s, p + t[1] + t[2] + t[3] + 1, stops, loose)) - 1) :
         t \in {u \in StrictSplits(s, p, stops, loose) :
                  \A w \in StrictSplits(s, p, stops, loose) :
                    (w[1] * 2 + w[2]) * (Len(s) + 1) + w[3]
                      <= (u[1] * 2 + u[2]) * (Len(s) + 1) + u[3]}})

\* label\s*[:;]?\s*(.*?)(?=stop) searched from the left: the capture,
\* stripped, and "" without a match
StrictCapture(s, labels, stops, loose) ==
  One({IF at = {} THEN <<>>
       ELSE Strip(StrictCaptureAt(s, SetMin(at), stops, loose)) :
         at \in {{p \in 1..Len(s) :
                    s[p] \in labels /\ StrictSplits(s, p, stops, loose) # {}}}})

\* label\s*word\s*[:;]?\s*([cls]+) at label position p: where the run starts,
\* or 0
WordRunAt(s, p, word, cls) ==
  One({IF /\ q + Len(word) - 1 <= Len(s)
          /\ SubSeq(s, q, q + Len(word) - 1) = word
          /\ RunLen(s, AfterLabel(s, q + Len(word)), cls) >= 1
       THEN AfterLabel(s, q + Len(word))
       ELSE 0 :
         q \in {SkipWs(s, p + 1)}})

\* label\s*word\s*[:;]?\s*([cls]+) searched from the left: the run, or ""
WordRun(s, label, word, cls) ==
  One({IF at = {} THEN <<>>
       ELSE RunAt(s, WordRunAt(s, SetMin(at), word, cls), cls, Len(s)) :
         at \in {{p \in 1..Len(s) :
                    s[p] = label /\ WordRunAt(s, p, word, cls) > 0}}})

\* the eight searches of parse_bengali_row, lines 34-75
strict_fields(text) ==
  [k \in {"Serial", "Name", "Voter No", "Father/Husband", "Mother",
          "Occupation", "DOB", "Address"} |->
     CASE k = "Serial" -> to_bengali_digits(StrictSerial(text))
       [] k = "Name" -> StrictCapture(text, {"nam"}, {"voter"}, FALSE)
       [] k = "Voter No" ->
            to_bengali_digits(WordRun(text, "voter", <<"nong">>, Digits))
       [] k = "Father/Husband" ->
            StrictCapture(text, {"pita", "swami"}, {"mata"}, FALSE)
       [] k = "Mother" -> StrictCapture(text, {"mata"}, {"pesha"}, FALSE)
       [] k = "Occupation" -> StrictCapture(text, {"pesha"}, {"jonmo"}, TRUE)
       [] k = "DOB" ->
            to_bengali_digits(WordRun(text, "jonmo", <<"ta", "ri", "kha">>,
                                      Digits \cup {"/", ".", "-"}))
       [] k = "Address" -> to_bengali_digits(AddressRest(text))]

\* parse_bengali_row, lines 16-77: {} for a text that is empty or blank
parse_bengali_row(text) ==
  IF Strip(text) = <<>> THEN <<>> ELSE strict_fields(text)

\* ------------------------------------------------------------------------
\* test_easyocr.py: parse_bengali_row
\* ------------------------------------------------------------------------

\* ভোটার\s*[:;]?\s*(?:নং)?\s*[:;]?\s*([0-9০-৯]+) at label position p: where
\* the run of digits starts, or 0
VoterLooseAt(s, p) ==
  One({IF RunLen(s, r, Digits) >= 1 THEN r ELSE 0 :
         r \in {AfterLabel(s, IF q <= Len(s) /\ s[q] = "nong" THEN q + 1 ELSE q) :
                  q \in {AfterLabel(s, p + 1)}}})

\* the same searched from the left: the run, or ""
VoterLoose(s) ==
  One({IF at = {} THEN <<>>
       ELSE RunAt(s, VoterLooseAt(s, SetMin(at)), Digits, Len(s)) :
         at \in {{p \in 1..Len(s) : s[p] = "voter" /\ VoterLooseAt(s, p) > 0}}})

\* clean_addr.split('চট্টগ্রাম')[0] + 'চট্টগ্রাম' when the word is in the address
StopAtCity(addr) ==
  One({IF at = {} THEN addr ELSE SubSeq(addr, 1, SetMin(at)) :
         at \in {{p \in 1..Len(addr) : addr[p] = "ctg"}}})

\* the eight searches of parse_bengali_row, test_easyocr.py lines 328-370
easyocr_fields(text) ==
  [k \in {"Serial", "Name", "Voter No", "Father/Husband", "Mother",
          "Occupation", "DOB", "Address"} |->
     CASE k = "Voter No" -> to_bengali_digits(VoterLoose(text))
       [] k = "Address" -> to_bengali_digits(StopAtCity(AddressRest(text)))
       [] OTHER -> strict_fields(text)[k]]

\* parse_bengali_row of test_easyocr.py, lines 308-372
easyocr_parse_row(text) ==
  IF Strip(text) = <<>> THEN <<>> ELSE easyocr_fields(text)

\* ------------------------------------------------------------------------
\* Sample texts
\* ------------------------------------------------------------------------

\* "0001 নাম: করিম ভোটার নং: 1234567890123 পিতা: রহিম"
T_FULL ==
  <<"0", "0", "0", "1", " ", "nam", ":", " ", "ka", "ri", "ma", " ",
    "voter", " ", "nong", ":", " ",
    "1", "2", "3", "4", "5", "6", "7", "8", "9", "0", "1", "2", "3", " ",
    "pita", ":", " ", "ra", "hi", "ma">>

\* "জন্ম তারিখ: 12/05/1980"
T_DOB ==
  <<"jonmo", " ", "ta", "ri", "kha", ":", " ",
    "1", "2", "/", "0", "5", "/", "1", "9", "8", "0">>

\* "0003 ভোটার নং: 1234567890123\nজন্ম তারিখ: 12/05/1980\nঠিকানা: ঢাকা"
T_NONAME ==
  <<"0", "0", "0", "3", " ", "voter", " ", "nong", ":", " ",
    "1", "2", "3", "4", "5", "6", "7", "8", "9", "0", "1", "2", "3", "nl",
    "jonmo", " ", "ta", "ri", "kha", ":", " ",
    "1", "2", "/", "0", "5", "/", "1", "9", "8", "0", "nl",
    "thikana", ":", " ", "dha", "ka">>

\* "Error: x", what a failed report call leaves in the report
T_ERR == <<"E", "r", "r", "o", "r", ":", " ", "x">>

\* ------------------------------------------------------------------------
\* Record keys, tables and the files of the pipeline
\* ------------------------------------------------------------------------

\* the rows of the record table
MaxRows == 2

\* how often the operator runs the cascade again on the records it produced
MaxReruns == 1

FieldNames ==
  {"Serial", "Name", "Voter No", "Father/Husband", "Mother", "Occupation",
   "DOB", "Address"}

\* int() of a digit string (ASCII or Bengali digits)
RECURSIVE ToInt(_)
ToInt(ds) ==
  IF ds = <<>> THEN 0
  ELSE 10 * ToInt(SubSeq(ds, 1, Len(ds) - 1)) + DigitVal[ds[Len(ds)]]

\* a slip: (\d) for (\d+), the first digit only
KeyNumDigit(name) ==
  One({IF m[1] = 0 THEN -1 ELSE ToInt(SubSeq(name, m[1], m[1])) :
         m \in {FindRun(name, Digits, 1, 1)}})

\* int(re.search(r'(\d+)', name).group(1)); -1 when there is no digit, where
\* the code raises and the caller skips the unit
KeyNum(name) ==
  One({IF m[1] = 0 THEN -1 ELSE ToInt(SubSeq(name, m[1], m[1] + m[2] - 1)) :
         m \in {FindRun(name, Digits, 1, Len(name))}})

\* the names crop-all.py gives: Page_00p and Box_01.jpg
PageName(p) == <<"P", "_", "0", "0", CHOOSE c \in AsciiDigits : DigitVal[c] = p>>

BoxName == <<"B", "_", "0", "1">>

BoxFile == BoxName \o <<".", "j", "p", "g">>

\* a file of the crop folder that is no image
BoxNote == BoxName \o <<".", "t", "x", "t">>

\* a cell that holds no page name
NoName == <<"n", "a", "n">>

V_NAME == <<"sa", "li", "ma">>

V_VOTER == <<"b5", "b5", "b5", "b5", "b5", "b5", "b5", "b5", "b5", "b5">>

V_ADDR == <<"dha", "ka">>

BlankFields == [c \in FieldNames |-> <<>>]

\* a row of the record table: complete; without a key; without the voter
\* number; without the name
RowOf(kind, p) ==
  [page |-> IF kind = "nokey" THEN NoName ELSE PageName(p),
   box |-> BoxName,
   f |-> CASE kind = "ok" ->
                [BlankFields EXCEPT !["Name"] = V_NAME, !["Voter No"] = V_VOTER]
            [] kind = "nokey" -> BlankFields
            [] kind = "novoter" -> [BlankFields EXCEPT !["Name"] = V_NAME]
            [] kind = "noname" ->
                [BlankFields EXCEPT !["Voter No"] = V_VOTER, !["Address"] = V_ADDR]]

\* what the report holds for a row: no line, or a line with this text
NoLine == [has |-> FALSE]

Line(t) == [has |-> TRUE, text |-> t]

\* The situations a row can be in when the pipeline starts.  The report and
\* the crop of a row are read only when the row misses a mandatory field and
\* has a key, and the crop only when Level 1 leaves the row in the queue, so
\* the other rows carry none.
RowCases ==
  {[kind |-> "ok", rep |-> NoLine, img |-> FALSE],
   [kind |-> "nokey", rep |-> NoLine, img |-> FALSE],
   [kind |-> "novoter", rep |-> NoLine, img |-> TRUE]}
  \cup {[kind |-> "noname", rep |-> NoLine, img |-> b] : b \in BOOLEAN}
  \cup {[kind |-> "noname", rep |-> Line(T_FULL), img |-> FALSE],
        [kind |-> "noname", rep |-> Line(T_DOB), img |-> TRUE]}

\* what the vision service does with one image
GcvOutcomes ==
  {[kind |-> "exception"], [kind |-> "empty"],
   [kind |-> "text", text |-> T_DOB], [kind |-> "text", text |-> T_FULL]}

NotAsked == [kind |-> "unasked"]

\* what the operator types at the prompt
Answers == {"Y", "yes", "no"}

\* str.lower() on the answers
Lower(a) == IF a = "Y" THEN "y" ELSE a

\* None, a file that does not exist
Absent == <<>>

VARIABLES
  parsed,     \* Final_Voter_List_Parsed.xlsx: the input of repair.py
  perfected,  \* Final_Voter_List_Perfected.xlsx: repair.py -> final_repair.py
  ultimate,   \* Final_Voter_List_Ultimate.xlsx: the output of final_repair.py
  report,     \* extraction_report.csv: rows of page name, box name, raw text
  folder,     \* full_extraction_dump: the files, <<directory, file>>
  gcv,        \* what the vision service answered for an image, once asked
  script,     \* the script that runs or ran last
  pc,         \* where main() is
  df,         \* the DataFrame of the running script
  text_map,   \* build_maps: key -> raw text
  image_map,  \* build_maps / build_image_map: key -> image path
  bad_rows,   \* the rows with a missing Name or Voter No
  i,          \* the position of the running loop
  gcv_queue,  \* repair.py: the rows left for Level 2
  confirm,    \* repair.py: the operator's answer, lowered
  new_text,   \* the text the last vision call returned
  msg,        \* the last message printed for a row
  calls,      \* history: the rows a vision call was issued for in this run
  told,       \* history: the queue size printed before the prompt, or -1
  tier1,      \* history: the rows Level 1 looked up in the report
  written,    \* history: the file that holds the records this run produced
  reruns,     \* history: how often the cascade was run again
  answer,     \* history: what the operator answered in this run, or "none"
  prev_answer, \* history: what the operator answered in the run before
  paused,     \* history: the pause was taken since the last vision call
  all_data,   \* extractor.py: the records collected so far
  page_records, \* extractor.py: the records of the page at hand
  pno,        \* extractor.py: the page at hand, counted from 0
  box_id,     \* extractor.py: the box at hand, counted from 1
  voters_csv, \* extractor.py: OUTPUT_CSV
  total_pages, \* extractor.py: doc.page_count
  service,    \* extractor.py: what the vision service answers to a crop
  restarts,   \* history: how often extractor.py was started again
  loaded,     \* history: the records this run of extractor.py loaded
  visited,    \* history: the pages this run of extractor.py cropped
  cpu_count,  \* test_easyocr.py: os.cpu_count()
  reader,     \* test_easyocr.py: what reader.readtext does with each image
  image_files, \* test_easyocr.py: the images found, sorted
  num_workers, \* test_easyocr.py: the size of the pool
  batches,    \* test_easyocr.py: the chunks handed to the workers
  futures,    \* test_easyocr.py: the state of each submitted batch
  results,    \* test_easyocr.py: the list each process_batch call builds
  raw_data_list, \* test_easyocr.py: the records main() has gathered
  completed_count, \* test_easyocr.py: the progress counter
  yielded,    \* test_easyocr.py: the futures as_completed has handed out
  raw_csv,    \* test_easyocr.py: RAW_CSV_FILE
  parsed_data, \* parser.py: the rows parsed so far
  text_in, \* the text a parser is called on
  tier, \* the parser that was called
  parse_out,  \* what the parser returned
  reads, \* history: how often this run read its input table
  writes,     \* history: how often this run wrote its output table
  img, \* the copy of the page image that is encoded: its width and height
  quality, \* the JPEG quality of the next encoding
  max_bytes, \* the limit the caller gave
  buf,        \* the length of the last encoding, in bytes
  final_data_list, \* test_easyocr.py: the parsed rows
  output_file \* test_easyocr.py: OUTPUT_FILE

vars ==
  <<parsed, perfected, ultimate, report, folder, gcv, script, pc, df, text_map,
    image_map, bad_rows, i, gcv_queue, confirm, new_text, msg, calls, told,
    tier1, written, reruns, answer, prev_answer, paused, all_data, page_records,
    pno, box_id, voters_csv, total_pages, service, restarts, loaded, visited,
    cpu_count, reader, image_files, num_workers, batches, futures, results,
    raw_data_list, completed_count, yielded, raw_csv,
    parsed_data,
    text_in, tier, parse_out,
    reads, writes,
    img, quality, max_bytes, buf,
    final_data_list, output_file>>

files == <<parsed, perfected, ultimate>>

env == <<report, folder>>

hist == <<reruns, prev_answer, paused>>

\* the state of extractor.py
extraction ==
  <<all_data, page_records, pno, box_id, voters_csv, total_pages, service,
    restarts, loaded, visited>>

\* the state of test_easyocr.py
batching ==
  <<cpu_count, reader, image_files, num_workers, batches, futures, results,
    raw_data_list, completed_count, yielded, raw_csv>>

\* the state of parser.py
parsing == <<parsed_data>>

\* a parser called on a text
calling == <<text_in, tier, parse_out>>

\* repair.py, final_repair.py: the accesses to the record table
io == <<reads, writes>>

\* app.py: _jpeg_b64_under_limit
encoding == <<img, quality, max_bytes, buf>>

\* test_easyocr.py: the parsed table
finishing == <<final_data_list, output_file>>

\* the state of repair.py and final_repair.py
repairing ==
  <<parsed, perfected, ultimate, df, text_map, image_map, bad_rows, gcv_queue,
    confirm, msg, calls, told, tier1, written, reruns, answer,
    prev_answer, paused>>

\* ------------------------------------------------------------------------
\* repair.py and final_repair.py: the maps, the call, the mask, the merge
\* ------------------------------------------------------------------------

\* str(cell) of a report cell: an empty cell is read as NaN
StrOf(cell) == IF cell = <<>> THEN <<"n", "a", "n">> ELSE cell

RowKey(r) == <<KeyNum(r.page), KeyNum(r.box)>>

\* the try block around the key: both names hold a number
HasKey(r) == KeyNum(r.page) >= 0 /\ KeyNum(r.box) >= 0

\* a slip: the list holds every element twice
AscendingTwice(S) ==
  [k \in 1..(2 * Cardinality(S)) |->
     CHOOSE x \in S :
       Cardinality({y \in S : y <= x}) = ((k - 1) % Cardinality(S)) + 1]

\* the elements of a set of numbers in ascending order
Ascending(S) ==
  [k \in 1..Cardinality(S) |-> CHOOSE x \in S : Cardinality({y \in S : y <= x}) = k]

\* build_maps, part 1: the last report row of a key wins
build_text_map(rep) ==
  [key \in {RowKey(rep[k]) : k \in {n \in 1..Len(rep) : HasKey(rep[n])}} |->
     StrOf(rep[SetMax({k \in 1..Len(rep) : HasKey(rep[k]) /\ RowKey(rep[k]) = key})].text)]

\* a slip: every file of the folder is taken for an image
IsImageAny(file) == Len(file) >= 0

\* filepath.lower().endswith(('.jpg', '.jpeg', '.png'))
IsImage(file) ==
  \/ Len(file) >= 4 /\ SubSeq(file, Len(file) - 3, Len(file)) \in
       {<<".", "j", "p", "g">>, <<".", "p", "n", "g">>}
  \/ Len(file) >= 5 /\ SubSeq(file, Len(file) - 4, Len(file)) = <<".", "j", "p", "e", "g">>

\* the key of a path, <<directory, file>>
PathKey(path) == RowKey([page |-> path[1], box |-> path[2]])

\* the image files whose directory and name hold a number
KeyedImages(dir) ==
  {path \in dir : IsImage(path[2]) /\ HasKey([page |-> path[1], box |-> path[2]])}

\* build_maps, part 2, and build_image_map
build_image_map(dir) ==
  [key \in {PathKey(path) : path \in KeyedImages(dir)} |->
     CHOOSE path \in KeyedImages(dir) : PathKey(path) = key]

\* dict.get(key)
Lookup(map, key) == IF key \in DOMAIN map THEN map[key] ELSE Absent

\* a slip: the message of the exception is returned as the text
call_gcv_api_error(outcome) ==
  CASE outcome.kind = "text" -> outcome.text
    [] outcome.kind = "empty" -> <<>>
    [] outcome.kind = "exception" -> T_ERR

\* call_gcv_api: the text of the annotation, "" in every other case
call_gcv_api(outcome) ==
  CASE outcome.kind = "text" -> outcome.text
    [] outcome.kind = "empty" -> <<>>
    [] outcome.kind = "exception" -> <<>>

\* df.replace(r'^\s*$', np.nan, regex=True) on what read_excel returns
read_excel(table) ==
  [k \in 1..Len(table) |->
     [page |-> table[k].page,
      box |-> table[k].box,
      f |-> [c \in FieldNames |->
               IF Strip(table[k].f[c]) = <<>> THEN <<>> ELSE table[k].f[c]]]]

\* a slip: the mask of repair.py looks at the Name only
repair_mask_name(row) == row.f["Name"] = <<>>

\* repair.py: df[["Name", "Voter No"]].isna().any(axis=1)
repair_mask(row) == row.f["Name"] = <<>> \/ row.f["Voter No"] = <<>>

\* final_repair.py: df[["Name", "Voter No"]].isna().any(axis=1)
final_mask(row) == row.f["Name"] = <<>> \/ row.f["Voter No"] = <<>>

\* the columns repair.py fills
RepairCols == {"Name", "Voter No", "Father/Husband", "Mother", "DOB", "Address"}

\* the columns final_repair.py fills
SweepCols == {"Name", "Voter No", "Father/Husband", "DOB", "Address"}

\* for col in cols: if pd.isna(df.loc[idx, col]) and col in extracted and
\* extracted[col]: df.at[idx, col] = extracted[col]
MergeFill(row, extracted, cols) ==
  [page |-> row.page,
   box |-> row.box,
   f |-> [c \in FieldNames |->
            IF /\ c \in cols
               /\ row.f[c] = <<>>
               /\ c \in DOMAIN extracted
               /\ extracted[c] # <<>>
            THEN extracted[c]
            ELSE row.f[c]]]

\* a slip: Level 1 stops after the first of the bad rows
Level1DoneEarly(pos, rows) == pos > 1 \/ pos > Len(rows)

\* Level 1 has gone through all of bad_rows
Level1Done(pos, rows) == pos > Len(rows)

\* a slip: only the rows Level 1 filled nothing of go to the queue
NeedsGcvUnrepaired(repaired, row) == ~repaired /\ row = row

\* Level 1: the row goes to the queue unless it was repaired and now has
\* both its Name and its Voter No
NeedsGcv(repaired, row) ==
  ~(repaired /\ row.f["Name"] # <<>> /\ row.f["Voter No"] # <<>>)

\* a slip: the body of the Level 2 loop ends without the pause
LoopEndNoPause == "level2"

\* the body of the Level 2 loop ends in the pause of line 247
LoopEnd == "sleep"

\* confirm in ["y", "yes"]
Confirmed(typed) == typed \in {"y", "yes"}

\* f"RAW GCV: {raw_text}"
RawGcv(raw_text) == <<"R", "A", "W", " ", "G", "C", "V", ":", " ">> \o raw_text

\* ------------------------------------------------------------------------
\* The pipeline: repair.py, then final_repair.py
\* ------------------------------------------------------------------------

\* the report lines of the rows that have one, in the order of the rows
ReportOf(cases) ==
  [n \in 1..Cardinality({k \in DOMAIN cases : cases[k].rep.has}) |->
     [page |-> PageName(Ascending({k \in DOMAIN cases : cases[k].rep.has})[n]),
      box |-> BoxFile,
      text |-> cases[Ascending({k \in DOMAIN cases : cases[k].rep.has})[n]].rep.text]]

\* no script has run yet
Fresh ==
  /\ perfected = Absent
  /\ ultimate = Absent
  /\ script = "none"
  /\ pc = "idle"
  /\ df = <<>>
  /\ text_map = <<>>
  /\ image_map = <<>>
  /\ bad_rows = <<>>
  /\ i = 0
  /\ gcv_queue = <<>>
  /\ confirm = "none"
  /\ new_text = <<>>
  /\ msg = "none"
  /\ calls = <<>>
  /\ told = -1
  /\ tier1 = {}
  /\ written = "parsed"
  /\ reruns = 0
  /\ answer = "none"
  /\ prev_answer = "none"
  /\ paused = TRUE
  /\ all_data = <<>>
  /\ page_records = <<>>
  /\ pno = 0
  /\ box_id = 0
  /\ voters_csv = Absent
  /\ restarts = 0
  /\ loaded = <<>>
  /\ visited = {}
  /\ image_files = <<>>
  /\ num_workers = 0
  /\ batches = <<>>
  /\ futures = <<>>
  /\ results = <<>>
  /\ raw_data_list = <<>>
  /\ completed_count = 0
  /\ yielded = {}
  /\ raw_csv = Absent
  /\ parsed_data = <<>>
  /\ text_in = <<>>
  /\ tier = "none"
  /\ parse_out = <<>>
  /\ reads = 0
  /\ writes = 0
  /\ img = <<>>
  /\ quality = 0
  /\ max_bytes = 0
  /\ buf = 0
  /\ final_data_list = <<>>
  /\ output_file = Absent

Init ==
  \E cases \in [1..MaxRows -> RowCases] :
    /\ parsed = [k \in 1..MaxRows |-> RowOf(cases[k].kind, k)]
    /\ report = ReportOf(cases)
    /\ folder = {<<PageName(k), IF cases[k].img THEN BoxFile ELSE BoxNote>> :
                   k \in 1..MaxRows}
    /\ gcv = [path \in folder |-> NotAsked]
    /\ total_pages = 0
    /\ service = {}
    /\ cpu_count = 1
    /\ reader = <<>>
    /\ Fresh

\* a slip: a table without gaps is saved all the same
after_analysis_save(bad, first) == IF bad = <<>> THEN "save" ELSE first

\* repair.py main, lines 163-165, final_repair.py main, lines 131-133: "if
\* not bad_rows: return"; a table without gaps ends the run before any
\* repair step and before the save
after_analysis(bad, first) == IF bad = <<>> THEN "done" ELSE first

\* repair.py main, lines 144-172: the maps, the table, the rows to repair
RepairStart ==
  /\ pc \in {"idle", "again"}
  /\ script' = "repair"
  /\ text_map' = build_text_map(report)
  /\ image_map' = build_image_map(folder)
  /\ df' = read_excel(parsed)
  /\ bad_rows' = Ascending({k \in 1..Len(parsed) : repair_mask(read_excel(parsed)[k])})
  /\ pc' = after_analysis(bad_rows', "level1")
  /\ reads' = 1
  /\ writes' = 0
  /\ i' = 1
  /\ gcv_queue' = <<>>
  /\ confirm' = "none"
  /\ new_text' = <<>>
  /\ msg' = "none"
  /\ calls' = <<>>
  /\ told' = -1
  /\ tier1' = {}
  /\ written' = "parsed"
  /\ answer' = "none"
  /\ UNCHANGED <<files, env, gcv, hist, extraction, batching, parsing, calling,
                 encoding, finishing>>

\* a slip: what the lenient parse does not find is taken from the anchored
\* parse of the same text
level1_parse_both(raw_text) ==
  [c \in DOMAIN robust_parse(raw_text) \cup DOMAIN blind_parse(raw_text) |->
     IF c \in DOMAIN robust_parse(raw_text) /\ robust_parse(raw_text)[c] # <<>>
     THEN robust_parse(raw_text)[c]
     ELSE IF c \in DOMAIN blind_parse(raw_text) THEN blind_parse(raw_text)[c]
     ELSE <<>>]

\* repair.py main, line 190: Level 1 parses the text of the report with
\* robust_parse and with nothing else
level1_parse(raw_text) == robust_parse(raw_text)

\* repair.py main, lines 174-207: one row of Level 1
Level1Step ==
  /\ pc = "level1"
  /\ ~Level1Done(i, bad_rows)
  /\ \E idx \in {bad_rows[i]} :
       IF ~HasKey(df[idx])
       THEN UNCHANGED <<df, gcv_queue, tier1, msg>>
       ELSE \E key \in {RowKey(df[idx])} :
            \E raw_text \in {Lookup(text_map, key)} :
            \E merged \in {IF raw_text # <<>>
                           THEN MergeFill(df[idx], level1_parse(raw_text), RepairCols)
                           ELSE df[idx]} :
              /\ df' = [df EXCEPT ![idx] = merged]
              /\ tier1' = tier1 \cup {idx}
              /\ IF NeedsGcv(merged # df[idx], merged)
                 THEN /\ gcv_queue' = Append(gcv_queue, <<idx, key[1], key[2]>>)
                      /\ msg' = "queued"
                 ELSE /\ gcv_queue' = gcv_queue
                      /\ msg' = "fixed_l1"
  /\ i' = i + 1
  /\ UNCHANGED <<files, env, gcv, script, pc, text_map, image_map, bad_rows,
                 confirm, new_text, calls, told, written, answer, hist, extraction,
                 batching, parsing, calling, io, encoding, finishing>>

\* repair.py main, lines 209-218: the queue size and the prompt
Level1End ==
  /\ pc = "level1"
  /\ Level1Done(i, bad_rows)
  /\ IF gcv_queue = <<>>
     THEN /\ pc' = "save"
          /\ UNCHANGED <<told, confirm, answer>>
     ELSE /\ told' = Len(gcv_queue)
          /\ \E typed \in Answers : confirm' = Lower(typed)
          /\ answer' = confirm'
          /\ pc' = IF Confirmed(confirm') THEN "level2" ELSE "save"
  /\ i' = 1
  /\ UNCHANGED <<files, env, gcv, script, df, text_map, image_map, bad_rows,
                 gcv_queue, new_text, msg, calls, tier1, written, hist, extraction,
                 batching, parsing, calling, io, encoding, finishing>>

\* repair.py main, lines 220-245: one row of Level 2
Level2Step ==
  /\ pc = "level2"
  /\ i <= Len(gcv_queue)
  /\ \E idx \in {gcv_queue[i][1]} :
     \E img_path \in {Lookup(image_map, <<gcv_queue[i][2], gcv_queue[i][3]>>)} :
       IF img_path = Absent
       THEN /\ msg' = "image_not_found"
            /\ UNCHANGED <<df, gcv, new_text, calls, paused>>
       ELSE \E outcome \in GcvOutcomes :
            \E text \in {call_gcv_api(outcome)} :
            \E merged \in {MergeFill(df[idx], robust_parse(text), RepairCols)} :
              /\ gcv[img_path] \in {NotAsked, outcome}
              /\ gcv' = [gcv EXCEPT ![img_path] = outcome]
              /\ calls' = Append(calls, idx)
              /\ paused' = FALSE
              /\ new_text' = text
              /\ IF text # <<>>
                 THEN /\ df' = [df EXCEPT ![idx] = merged]
                      /\ msg' = IF merged # df[idx] THEN "fixed" ELSE "regex_failed"
                 ELSE /\ df' = df
                      /\ msg' = "gcv_empty"
  /\ pc' = LoopEnd
  /\ UNCHANGED <<files, env, script, text_map, image_map, bad_rows, i, gcv_queue,
                 confirm, told, tier1, written, answer, reruns, prev_answer,
                 extraction, batching, parsing, calling, io, encoding,
                 finishing>>

\* repair.py main, line 247: time.sleep(0.5), then the next row
Sleep ==
  /\ pc = "sleep"
  /\ i' = i + 1
  /\ pc' = IF i' > Len(gcv_queue) THEN "save" ELSE "level2"
  /\ paused' = TRUE
  /\ UNCHANGED <<files, env, gcv, script, df, text_map, image_map, bad_rows,
                 gcv_queue, confirm, new_text, msg, calls, told, tier1, written,
                 answer, reruns, prev_answer, extraction, batching, parsing,
                 calling, io, encoding, finishing>>

\* repair.py main, lines 251-252
RepairSave ==
  /\ pc = "save"
  /\ perfected' = df
  /\ written' = "perfected"
  /\ writes' = writes + 1
  /\ UNCHANGED reads
  /\ pc' = "done"
  /\ UNCHANGED <<parsed, ultimate, env, gcv, script, df, text_map, image_map,
                 bad_rows, i, gcv_queue, confirm, new_text, msg, calls, told,
                 tier1, answer, hist, extraction, batching, parsing, calling,
                 encoding, finishing>>

\* final_repair.py main, lines 114-136; without its input it returns at once
FinalStart ==
  /\ pc = "done"
  /\ script = "repair"
  /\ script' = "final"
  /\ confirm' = "none"
  /\ new_text' = <<>>
  /\ msg' = "none"
  /\ calls' = <<>>
  /\ told' = -1
  /\ gcv_queue' = <<>>
  /\ text_map' = <<>>
  /\ i' = 1
  /\ IF perfected = Absent
     THEN /\ pc' = "done"
          /\ reads' = 0
          /\ df' = <<>>
          /\ image_map' = <<>>
          /\ bad_rows' = <<>>
     ELSE /\ image_map' = build_image_map(folder)
          /\ df' = read_excel(perfected)
          /\ bad_rows' = Ascending({k \in 1..Len(perfected) :
                                      final_mask(read_excel(perfected)[k])})
          /\ pc' = after_analysis(bad_rows', "sweep")
          /\ reads' = 1
  /\ writes' = 0
  /\ UNCHANGED <<files, env, gcv, tier1, written, answer, hist, extraction,
                 batching, parsing, calling, encoding, finishing>>

\* final_repair.py main, lines 137-171: one row of the sweep
FinalStep ==
  /\ pc = "sweep"
  /\ \E idx \in {bad_rows[i]} :
       IF ~HasKey(df[idx])
       THEN /\ i' = i + 1
            /\ pc' = IF i' > Len(bad_rows) THEN "fsave" ELSE "sweep"
            /\ UNCHANGED <<df, gcv, new_text, msg, calls, paused>>
       ELSE /\ i' = i
            /\ pc' = "fsleep"
            /\ \E img_path \in {Lookup(image_map, RowKey(df[idx]))} :
                 IF img_path = Absent
                 THEN /\ msg' = "image_missing"
                      /\ UNCHANGED <<df, gcv, new_text, calls, paused>>
                 ELSE \E outcome \in GcvOutcomes :
                      \E raw_text \in {call_gcv_api(outcome)} :
                      \E merged \in {MergeFill(df[idx], blind_parse(raw_text), SweepCols)} :
                        /\ gcv[img_path] \in {NotAsked, outcome}
                        /\ gcv' = [gcv EXCEPT ![img_path] = outcome]
                        /\ calls' = Append(calls, idx)
                        /\ paused' = FALSE
                        /\ new_text' = raw_text
                        /\ IF merged # df[idx]
                           THEN /\ df' = [df EXCEPT ![idx] = merged]
                                /\ msg' = "fixed_blind"
                           ELSE /\ df' = [df EXCEPT ![idx].f["Address"] = RawGcv(raw_text)]
                                /\ msg' = "failed_raw_saved"
  /\ UNCHANGED <<files, env, script, text_map, image_map, bad_rows, gcv_queue,
                 confirm, told, tier1, written, answer, reruns, prev_answer,
                 extraction, batching, parsing, calling, io, encoding,
                 finishing>>

\* final_repair.py main, line 173: time.sleep(0.5), then the next row
FinalSleep ==
  /\ pc = "fsleep"
  /\ i' = i + 1
  /\ pc' = IF i' > Len(bad_rows) THEN "fsave" ELSE "sweep"
  /\ paused' = TRUE
  /\ UNCHANGED <<files, env, gcv, script, df, text_map, image_map, bad_rows,
                 gcv_queue, confirm, new_text, msg, calls, told, tier1, written,
                 answer, reruns, prev_answer, extraction, batching, parsing,
                 calling, io, encoding, finishing>>

\* final_repair.py main, lines 175-176
FinalSave ==
  /\ pc = "fsave"
  /\ ultimate' = df
  /\ written' = "ultimate"
  /\ writes' = writes + 1
  /\ UNCHANGED reads
  /\ pc' = "done"
  /\ UNCHANGED <<parsed, perfected, env, gcv, script, df, text_map, image_map,
                 bad_rows, i, gcv_queue, confirm, new_text, msg, calls, told,
                 tier1, answer, hist, extraction, batching, parsing, calling,
                 encoding, finishing>>

\* The operator runs the cascade a second time on the record set the first
\* run produced: the file written last is copied over the input of repair.py.
Refeed ==
  /\ pc = "done"
  /\ script = "final"
  /\ reruns < MaxReruns
  /\ parsed' = CASE written = "ultimate" -> ultimate
                 [] written = "perfected" -> perfected
                 [] written = "parsed" -> parsed
  /\ reruns' = reruns + 1
  /\ prev_answer' = answer
  /\ pc' = "again"
  /\ UNCHANGED <<perfected, ultimate, env, gcv, script, df, text_map, image_map,
                 bad_rows, i, gcv_queue, confirm, new_text, msg, calls, told,
                 tier1, written, answer, paused, extraction, batching,
                 parsing, calling, io, encoding, finishing>>

Next ==
  \/ RepairStart
  \/ Level1Step
  \/ Level1End
  \/ Level2Step
  \/ Sleep
  \/ RepairSave
  \/ FinalStart
  \/ FinalStep
  \/ FinalSleep
  \/ FinalSave

\* one run of the cascade
Spec == Init /\ [][Next]_vars

\* where the cascade is: the script, the place in its main and the loop index
position == <<script, pc, i>>

\* a script is at work or still to be started
Working == ~(pc = "done" /\ script = "final")

\* the cascade goes on: some step that moves the position is taken
GoOn ==
  /\ Working
  /\ script' \in {"repair", "final"}
  /\ pc' \in {"level1", "level2", "sleep", "save", "sweep", "fsleep", "fsave", "done"}
  /\ i' \in 0..(MaxRows + 1)

\* The cascade when nothing stops it: a script that has started runs on to
\* its end, the operator answers the prompt, and the service answers or the
\* request times out.  Every step of Next moves the position, and while a
\* script is at work a step of Next is possible, so this is the weak fairness
\* of Next.
SpecFair == Init /\ [][Next]_vars /\ WF_position(GoOn)

NextTwice ==
  \/ Next
  \/ Refeed

\* the cascade, run again on its own output
SpecTwice == Init /\ [][NextTwice]_vars

\* ------------------------------------------------------------------------
\* test-gcv.py: the report
\* ------------------------------------------------------------------------

\* the page folders of the dump
MaxImages == 3

\* extract_text_from_image: the text of the annotation on one line, "" when
\* the response holds none, and f"Error: {e}" when the call raises
extract_text_from_image(outcome) ==
  CASE outcome.kind = "text" -> Strip(ReplaceChar(outcome.text, "nl", " "))
    [] outcome.kind = "empty" -> <<>>
    [] outcome.kind = "exception" -> T_ERR

\* sorted(...) over the folders and over the images of each: the names are
\* padded with zeros, so the order of the names is the order of the numbers
sorted_images(dir) ==
  [n \in 1..Cardinality({path \in dir : IsImage(path[2])}) |->
     CHOOSE path \in {q \in dir : IsImage(q[2])} :
       Cardinality({q \in dir : IsImage(q[2]) /\ KeyNum(q[1]) <= KeyNum(path[1])}) = n]

InitReport ==
  \E has \in [1..MaxImages -> BOOLEAN] :
    /\ folder = {<<PageName(k), IF has[k] THEN BoxFile ELSE BoxNote>> :
                   k \in 1..MaxImages}
    /\ gcv = [path \in folder |-> NotAsked]
    /\ report = Absent
    /\ parsed = Absent
    /\ total_pages = 0
    /\ service = {}
    /\ cpu_count = 1
    /\ reader = <<>>
    /\ Fresh

\* test-gcv.py main, lines 45-62: the report is opened for writing
ReportOpen ==
  /\ pc = "idle"
  /\ script' = "test-gcv"
  /\ report' = <<>>
  /\ i' = 1
  /\ pc' = "walk"
  /\ UNCHANGED <<folder, gcv, new_text, repairing, extraction, batching, parsing,
                 calling, io, encoding, finishing>>

\* test-gcv.py main, lines 75-86: one image, one line of the report
ReportRow ==
  /\ pc = "walk"
  /\ i <= Len(sorted_images(folder))
  /\ \E image_path \in {sorted_images(folder)[i]} :
     \E outcome \in GcvOutcomes :
     \E raw_text \in {extract_text_from_image(outcome)} :
       /\ gcv[image_path] \in {NotAsked, outcome}
       /\ gcv' = [gcv EXCEPT ![image_path] = outcome]
       /\ new_text' = raw_text
       /\ report' = Append(report, [page |-> image_path[1], box |-> image_path[2],
                                    text |-> raw_text])
  /\ i' = i + 1
  /\ UNCHANGED <<folder, script, pc, repairing, extraction, batching, parsing,
                 calling, io, encoding, finishing>>

\* test-gcv.py main, lines 88-89: the report is closed
ReportClose ==
  /\ pc = "walk"
  /\ i > Len(sorted_images(folder))
  /\ pc' = "done"
  /\ UNCHANGED <<report, folder, gcv, script, i, new_text, repairing, extraction,
                 batching, parsing, calling, io, encoding, finishing>>

NextReport ==
  \/ ReportOpen
  \/ ReportRow
  \/ ReportClose

\* test-gcv.py writes the report
SpecReport == InitReport /\ [][NextReport]_vars

\* ------------------------------------------------------------------------
\* extractor.py: main
\* ------------------------------------------------------------------------

\* the pages of the PDF
MaxPages == 4

\* the boxes of a page that are cropped
MaxBoxes == 2

STD_COLS == <<375, 1689, 3006>>

STD_ROWS == <<234, 684, 1134, 1584, 2034, 2484>>

START_COLS == <<375, 1689, 3005>>

START_ROWS == <<634, 1085, 1535, 1985, 2435>>

\* the boxes of page pno: the grid of the first list page, or the standard one
Boxes(p) ==
  One({IF n > MaxBoxes THEN MaxBoxes ELSE n :
         n \in {IF p = 2 THEN Len(START_COLS) * Len(START_ROWS)
                ELSE Len(STD_COLS) * Len(STD_ROWS)}})

\* what the vision service does with one crop
CropOutcomes ==
  {[kind |-> "exception"], [kind |-> "text", text |-> T_FULL],
   [kind |-> "text", text |-> T_NONAME]}

\* call_google_vision: the text of the annotation, "" when anything raises
call_google_vision(outcome) ==
  CASE outcome.kind = "text" -> outcome.text
    [] outcome.kind = "exception" -> <<>>

\* raw_text.replace("\n", " | ")
RECURSIVE Raw_Text_Debug(_)
Raw_Text_Debug(raw_text) ==
  IF raw_text = <<>> THEN <<>>
  ELSE (IF Head(raw_text) = "nl" THEN <<" ", "|", " ">> ELSE <<Head(raw_text)>>)
         \o Raw_Text_Debug(Tail(raw_text))

\* a slip: two missing fields are enough to flag the record
StatusOfTwo(missing_fields) ==
  IF Cardinality(missing_fields) >= 2 THEN "Review Needed" ELSE "OK"

\* lines 180-184: more than 2 missing fields flag the record
StatusOf(missing_fields) ==
  IF Cardinality(missing_fields) > 2 THEN "Review Needed" ELSE "OK"

\* lines 172-184: the record of one box
BoxRecord(raw_text, real_page, box) ==
  One({[f |-> parse.data,
        Page |-> real_page,
        Box |-> box,
        Raw_Text_Debug |-> Raw_Text_Debug(raw_text),
        Status |-> StatusOf(parse.missing)] :
         parse \in {parse_with_regex(raw_text)}})

InitExtract ==
  /\ parsed = Absent
  /\ report = Absent
  /\ folder = {}
  /\ gcv = <<>>
  /\ total_pages = MaxPages
  /\ service = CropOutcomes
  /\ cpu_count = 1
  /\ reader = <<>>
  /\ Fresh

\* a slip: the run starts over at the last page of the table
start_page_again(existing_df) ==
  IF existing_df # Absent /\ existing_df # <<>>
  THEN SetMax({existing_df[n].Page : n \in 1..Len(existing_df)}) - 1
  ELSE 0

\* lines 136-143: start_page, the highest Page of an OUTPUT_CSV with rows
start_page(existing_df) ==
  IF existing_df # Absent /\ existing_df # <<>>
  THEN SetMax({existing_df[n].Page : n \in 1..Len(existing_df)})
  ELSE 0

\* extractor.py main, lines 124-146: the PDF is opened; an OUTPUT_CSV with
\* rows gives the page to start at and the records so far
ExtractStart ==
  /\ pc = "idle"
  /\ script' = "extractor"
  /\ pno' = start_page(voters_csv)
  /\ all_data' = IF voters_csv = Absent THEN <<>> ELSE voters_csv
  /\ loaded' = all_data'
  /\ visited' = {}
  /\ pc' = "page"
  /\ UNCHANGED <<report, folder, gcv, i, new_text, repairing, page_records,
                 box_id, voters_csv, total_pages, service, restarts,
                 batching, parsing, calling, io, encoding, finishing>>

\* extractor.py main, lines 148-161: the next page; the covers are skipped
ExtractPage ==
  /\ pc = "page"
  /\ IF pno >= total_pages
     THEN /\ pc' = "final"
          /\ UNCHANGED <<pno, box_id, page_records, visited>>
     ELSE IF pno < 2
          THEN /\ pno' = pno + 1
               /\ UNCHANGED <<pc, box_id, page_records, visited>>
          ELSE /\ box_id' = 1
               /\ page_records' = <<>>
               /\ visited' = visited \cup {pno + 1}
               /\ pc' = "box"
               /\ pno' = pno
  /\ UNCHANGED <<report, folder, gcv, script, i, new_text, repairing, all_data,
                 voters_csv, total_pages, service, restarts, loaded,
                 batching, parsing, calling, io, encoding, finishing>>

\* extractor.py main, lines 163-187: one box of the page
ExtractBox ==
  /\ pc = "box"
  /\ box_id <= Boxes(pno)
  /\ \E outcome \in service :
       /\ new_text' = call_google_vision(outcome)
       /\ page_records' = Append(page_records, BoxRecord(new_text', pno + 1, box_id))
  /\ box_id' = box_id + 1
  /\ UNCHANGED <<report, folder, gcv, script, pc, i, repairing, all_data, pno,
                 voters_csv, total_pages, service, restarts, loaded, visited,
                 batching, parsing, calling, io, encoding, finishing>>

\* extractor.py main, lines 189-194: the page is done; every fifth is saved
ExtractPageEnd ==
  /\ pc = "box"
  /\ box_id > Boxes(pno)
  /\ all_data' = all_data \o page_records
  /\ voters_csv' = IF (pno + 1) % 5 = 0 THEN all_data' ELSE voters_csv
  /\ pno' = pno + 1
  /\ pc' = "page"
  /\ UNCHANGED <<report, folder, gcv, script, i, new_text, repairing,
                 page_records, box_id, total_pages, service, restarts, loaded,
                 visited, batching, parsing, calling, io, encoding,
                 finishing>>

\* extractor.py main, lines 196-198: the final save
ExtractSave ==
  /\ pc = "final"
  /\ voters_csv' = all_data
  /\ pc' = "done"
  /\ UNCHANGED <<report, folder, gcv, script, i, new_text, repairing, all_data,
                 page_records, pno, box_id, total_pages, service, restarts,
                 loaded, visited, batching, parsing, calling, io, encoding,
                 finishing>>

NextExtract ==
  \/ ExtractStart
  \/ ExtractPage
  \/ ExtractBox
  \/ ExtractPageEnd
  \/ ExtractSave

\* extractor.py reads the PDF
SpecExtract == InitExtract /\ [][NextExtract]_vars

\* the pages of the longest PDF of the runs that are stopped and started again
MaxDocPages == 7

\* how often extractor.py is started again
MaxRestarts == 2

\* a PDF of any length; the service gives the same answer to every crop
InitResume ==
  /\ parsed = Absent
  /\ report = Absent
  /\ folder = {}
  /\ gcv = <<>>
  /\ total_pages \in 0..MaxDocPages
  /\ \E outcome \in CropOutcomes : service = {outcome}
  /\ cpu_count = 1
  /\ reader = <<>>
  /\ Fresh

\* the records a save at this place writes: line 197 after the loop, line 193
\* at the end of a page
Saving == IF pc = "final" THEN all_data ELSE all_data \o page_records

\* The run of extractor.py is stopped from outside between two steps, or has
\* ended, and the script is started again: what main held in memory is gone,
\* OUTPUT_CSV is as the last save left it.
Restart ==
  /\ script = "extractor"
  /\ pc \in {"page", "box", "final", "done"}
  /\ restarts < MaxRestarts
  /\ restarts' = restarts + 1
  /\ pc' = "idle"
  /\ all_data' = <<>>
  /\ page_records' = <<>>
  /\ pno' = 0
  /\ box_id' = 0
  /\ new_text' = <<>>
  /\ loaded' = <<>>
  /\ visited' = {}
  /\ UNCHANGED <<report, folder, gcv, script, i, repairing, voters_csv,
                 total_pages, service, batching, parsing, calling, io,
                 encoding, finishing>>

\* extractor.py main, lines 193 and 197: to_csv opens OUTPUT_CSV itself for
\* writing, which empties it, and writes the rows in order.  The run is
\* stopped from outside before the last row is written, and the script is
\* started again.
InterruptSave ==
  /\ script = "extractor"
  /\ \/ pc = "final"
     \/ pc = "box" /\ box_id > Boxes(pno) /\ (pno + 1) % 5 = 0
  /\ restarts < MaxRestarts
  /\ restarts' = restarts + 1
  /\ \E k \in 0..(Len(Saving) - 1) : voters_csv' = SubSeq(Saving, 1, k)
  /\ pc' = "idle"
  /\ all_data' = <<>>
  /\ page_records' = <<>>
  /\ pno' = 0
  /\ box_id' = 0
  /\ new_text' = <<>>
  /\ loaded' = <<>>
  /\ visited' = {}
  /\ UNCHANGED <<report, folder, gcv, script, i, repairing, total_pages, service,
                 batching, parsing, calling, io, encoding, finishing>>

NextResume ==
  \/ NextExtract
  \/ Restart
  \/ InterruptSave

\* extractor.py, stopped and started again
SpecResume == InitResume /\ [][NextResume]_vars

NextAtomic ==
  \/ NextExtract
  \/ Restart

\* extractor.py, stopped and started again, were no save ever cut short
SpecAtomic == InitResume /\ [][NextAtomic]_vars

\* ------------------------------------------------------------------------
\* crop-all.py and the image index
\* ------------------------------------------------------------------------

\* the highest page and box number of the locators that are made up
MaxKey == 11

\* the pages of the PDF crop-all.py is run on
MaxCropPages == 4

STD_COLS_X == <<375, 1689, 3006>>

STD_ROWS_Y == <<180, 630, 1080, 1530, 1980, 2430>>

START_PAGE_COLS_X == <<375, 1689, 3005>>

START_PAGE_ROWS_Y == <<634, 1085, 1535, 1985, 2435>>

\* str(n) for n >= 0
RECURSIVE Decimal(_)
Decimal(n) ==
  IF n < 10 THEN <<CHOOSE c \in AsciiDigits : DigitVal[c] = n>>
  ELSE Decimal(n \div 10) \o <<CHOOSE c \in AsciiDigits : DigitVal[c] = n % 10>>

\* the format f"{n:0wd}"
ZeroPad(n, w) ==
  [k \in 1..(IF Len(Decimal(n)) > w THEN 0 ELSE w - Len(Decimal(n))) |-> "0"]
    \o Decimal(n)

\* crop-all.py line 74: f"Page_{page_no + 1:03d}"
crop_page_dir(page_no) == <<"P", "a", "g", "e", "_">> \o ZeroPad(page_no + 1, 3)

\* crop-all.py line 85: f"Box_{box_count:02d}.jpg"
crop_fname(box_count) ==
  <<"B", "o", "x", "_">> \o ZeroPad(box_count, 2) \o <<".", "j", "p", "g">>

\* crop-all.py lines 57-64 and 78-89: the boxes of page page_no
CropGrid(page_no) ==
  IF page_no = 2 THEN Len(START_PAGE_COLS_X) * Len(START_PAGE_ROWS_Y)
  ELSE Len(STD_COLS_X) * Len(STD_ROWS_Y)

\* crop-all.py lines 49-90: the files written for a PDF of page_count pages
Crops(page_count) ==
  UNION {{<<crop_page_dir(page_no), crop_fname(box_count)>> :
            box_count \in 1..CropGrid(page_no)} : page_no \in 2..(page_count - 1)}

\* a number written in ASCII digits, with zeros in front, or in Bengali digits
Numeral(n, style) ==
  CASE style = "ascii" -> Decimal(n)
    [] style = "zeros" -> <<"0", "0">> \o Decimal(n)
    [] style = "bengali" -> [k \in 1..Len(Decimal(n)) |-> BnOf[Decimal(n)[k]]]

\* The ways a made-up path segment holds its number: what stands before it,
\* how it is written, what stands after it (a second number, too).
Variants ==
  {[pre |-> <<"P", "_">>, style |-> "zeros", post |-> <<>>],
   [pre |-> <<>>, style |-> "ascii", post |-> <<"_", "7">>],
   [pre |-> <<"x", "-">>, style |-> "bengali", post |-> <<"a", "9", "9">>],
   [pre |-> <<"B", "o", "x", "_">>, style |-> "ascii", post |-> <<>>]}

\* a path segment with n as its first run of digits
Segment(n, v) == v.pre \o Numeral(n, v.style) \o v.post

\* a made-up locator, <<directory, file>>
Locator(p, vp, b, vb) ==
  <<Segment(p, vp), Segment(b, vb) \o <<".", "j", "p", "g">>>>

\* a folder with one made-up image, or the folder crop-all.py is still to fill
InitIndex ==
  /\ parsed = Absent
  /\ report = Absent
  /\ gcv = <<>>
  /\ service = {}
  /\ \/ /\ total_pages = 0
        /\ \E p \in 0..MaxKey, b \in 0..MaxKey, vp \in Variants, vb \in Variants :
             folder = {Locator(p, vp, b, vb)}
     \/ /\ total_pages \in 0..MaxCropPages
        /\ folder = {}
  /\ cpu_count = 1
  /\ reader = <<>>
  /\ Fresh

\* crop-all.py run_full_extraction, lines 32-92: the output folder is emptied
\* and the boxes of every page after the covers are written
CropAll ==
  /\ script = "none"
  /\ pc = "idle"
  /\ script' = "crop-all"
  /\ folder' = Crops(total_pages)
  /\ UNCHANGED <<files, report, gcv, pc, df, text_map, image_map, bad_rows, i,
                 gcv_queue, confirm, new_text, msg, calls, told, tier1, written,
                 answer, hist, extraction, batching, parsing, calling, io,
                 encoding, finishing>>

\* final_repair.py build_image_map, lines 18-31 (repair.py build_maps, lines
\* 103-117): the index of the images of the folder
BuildImageMap ==
  /\ script \in {"none", "crop-all"}
  /\ pc = "idle"
  /\ script' = "index"
  /\ image_map' = build_image_map(folder)
  /\ pc' = "done"
  /\ UNCHANGED <<files, env, gcv, df, text_map, bad_rows, i, gcv_queue, confirm,
                 new_text, msg, calls, told, tier1, written, answer, hist,
                 extraction, batching, parsing, calling, io, encoding,
                 finishing>>

NextIndex ==
  \/ CropAll
  \/ BuildImageMap

\* the crops are written and indexed
SpecIndex == InitIndex /\ [][NextIndex]_vars

\* ------------------------------------------------------------------------
\* test_easyocr.py: the parallel extraction
\* ------------------------------------------------------------------------

\* the files of the crop folder
MaxBatch == 3

\* the size of the pool
MaxWorkers == 2

\* ord() of the characters the names of the folder are written with
Ord(c) ==
  CASE c = "." -> 46 [] c = "/" -> 47 [] c \in AsciiDigits -> 48 + DigitVal[c]
    [] c = "B" -> 66 [] c = "P" -> 80 [] c = "_" -> 95 [] c = "a" -> 97
    [] c = "c" -> 99 [] c = "e" -> 101 [] c = "g" -> 103 [] c = "i" -> 105
    [] c = "j" -> 106 [] c = "m" -> 109 [] c = "n" -> 110 [] c = "o" -> 111
    [] c = "p" -> 112 [] c = "r" -> 114 [] c = "s" -> 115 [] c = "t" -> 116
    [] c = "v" -> 118 [] c = "x" -> 120

\* s < t on Python strings
StrLess(s, t) ==
  \E k \in 1..(Len(s) + 1) :
    /\ k <= Len(t)
    /\ \A j \in 1..(k - 1) : s[j] = t[j]
    /\ (k = Len(s) + 1 \/ Ord(s[k]) < Ord(t[k]))

\* the path of a file below CROPS_FOLDER
path_str(path) == path[1] \o <<"/">> \o path[2]

\* f.lower().endswith(('.jpg', '.png')); the names of the model are in lower
\* case already
IsJpgOrPng(file) ==
  /\ Len(file) >= 4
  /\ SubSeq(file, Len(file) - 3, Len(file)) \in
       {<<".", "j", "p", "g">>, <<".", "p", "n", "g">>}

\* main, lines 451-452: sorted(glob.glob(...)), the images only
collect_images(dir) ==
  [n \in 1..Cardinality({q \in dir : IsJpgOrPng(q[2])}) |->
     CHOOSE path \in {q \in dir : IsJpgOrPng(q[2])} :
       Cardinality({q \in dir : IsJpgOrPng(q[2])
                                  /\ StrLess(path_str(q), path_str(path))}) = n - 1]

\* main, line 462: max(1, os.cpu_count() - 1)
pool_size(cpus) == IF cpus - 1 < 1 THEN 1 ELSE cpus - 1

\* a slip: the chunk size is rounded down
chunk_size_floor(total, workers) ==
  IF total \div workers = 0 THEN 1 ELSE total \div workers

\* main, line 469
chunk_size(total, workers) == (total + workers - 1) \div workers

\* main, line 470: [image_files[i:i + size] for i in range(0, total, size)]
split(list, size) ==
  [k \in 1..((Len(list) + size - 1) \div size) |->
     SubSeq(list, (k - 1) * size + 1,
            IF k * size < Len(list) THEN k * size ELSE Len(list))]

\* " ".join(text_list)
RECURSIVE JoinSpace(_)
JoinSpace(text_list) ==
  IF Len(text_list) = 0 THEN <<>>
  ELSE IF Len(text_list) = 1 THEN text_list[1]
  ELSE text_list[1] \o <<" ">> \o JoinSpace(Tail(text_list))

\* clean_ocr_text, lines 301-306
clean_ocr_text(text_list) ==
  IF text_list = <<>> THEN <<>>
  ELSE ReplaceChar(ReplaceChar(JoinSpace(text_list), "|", " "), "I", " ")

\* what reader.readtext does with one image: lines of text, or an exception
ReaderOutcomes ==
  {[kind |-> "text", list |-> <<<<"sa", "|", "li">>, <<"I", "ma">>>>],
   [kind |-> "exception", list |-> <<>>]}

\* str(e) of the exception, after "ERROR: "
T_OCR_ERR == <<"E", "R", "R", "O", "R", ":", " ", "x">>

\* process_batch, lines 393-397: the numbers of the directory and of the
\* file, and 0, 0 when either holds none
batch_key(img_path) ==
  IF HasKey([page |-> img_path[1], box |-> img_path[2]])
  THEN PathKey(img_path)
  ELSE <<0, 0>>

\* f"Page_{int(p_val):03d}"
batch_page_name(p_val) == <<"P", "a", "g", "e", "_">> \o ZeroPad(p_val, 3)

\* f"Box_{int(b_val):02d}.jpg"
batch_box_name(b_val) ==
  <<"B", "o", "x", "_">> \o ZeroPad(b_val, 2) \o <<".", "j", "p", "g">>

\* process_batch, lines 389-439: the record of one image; src is history,
\* the image the record was made for
batch_record(img_path, outcome) ==
  [page |-> batch_page_name(batch_key(img_path)[1]),
   box |-> IF outcome.kind = "exception" THEN img_path[2]
           ELSE batch_box_name(batch_key(img_path)[2]),
   text |-> IF outcome.kind = "exception" THEN T_OCR_ERR
            ELSE clean_ocr_text(outcome.list),
   src |-> img_path]

\* the order of sort_values(by=["Page Name", "Box Name"])
RowLess(a, b) ==
  \/ StrLess(a.page, b.page)
  \/ a.page = b.page /\ StrLess(a.box, b.box)

\* df.sort_values(by=["Page Name", "Box Name"], ignore_index=True): rows
\* with the same names keep their order
sort_values(rows) ==
  [n \in 1..Len(rows) |->
     rows[CHOOSE k \in 1..Len(rows) :
            Cardinality({j \in 1..Len(rows) :
                           \/ RowLess(rows[j], rows[k])
                           \/ ~RowLess(rows[k], rows[j]) /\ j < k}) = n - 1]]

\* The files the crop folder may hold: three crops of crop-all.py, a crop in
\* a directory without a number, an image without a number, and a note.
BatchFiles ==
  {<<crop_page_dir(2), crop_fname(1)>>,
   <<crop_page_dir(2), crop_fname(2)>>,
   <<crop_page_dir(3), crop_fname(1)>>,
   <<<<"m", "i", "s", "c">>, crop_fname(1)>>,
   <<crop_page_dir(2), <<"c", "o", "v", "e", "r", ".", "p", "n", "g">>>>,
   <<crop_page_dir(2), <<"n", "o", "t", "e", ".", "t", "x", "t">>>>}

InitBatch ==
  /\ parsed = Absent
  /\ report = Absent
  /\ gcv = <<>>
  /\ total_pages = 0
  /\ service = {}
  /\ folder \in {S \in SUBSET BatchFiles : Cardinality(S) <= MaxBatch}
  /\ cpu_count \in 1..(MaxWorkers + 1)
  /\ reader \in [{q \in folder : IsJpgOrPng(q[2])} -> ReaderOutcomes]
  /\ Fresh

\* main, lines 443-479: the images are collected and split, and the batches
\* are submitted to the pool
BatchStart ==
  /\ script = "none"
  /\ pc = "idle"
  /\ script' = "easyocr"
  /\ image_files' = collect_images(folder)
  /\ IF Len(image_files') = 0
     THEN /\ pc' = "done"
          /\ UNCHANGED <<num_workers, batches, futures, results>>
     ELSE /\ num_workers' = pool_size(cpu_count)
          /\ batches' = split(image_files',
                              chunk_size(Len(image_files'), num_workers'))
          /\ futures' = [w \in DOMAIN batches' |-> "pending"]
          /\ results' = [w \in DOMAIN batches' |-> <<>>]
          /\ pc' = "pool"
  /\ UNCHANGED <<env, gcv, i, new_text, repairing, extraction, cpu_count,
                 reader, raw_data_list, completed_count, yielded, raw_csv,
                 parsing, calling, io, encoding, finishing>>

\* process_batch, lines 384-386: a worker process makes its own reader and
\* its own list; the future fails when the reader cannot be made
ProcessBatchStart(w) ==
  /\ pc = "pool"
  /\ futures[w] = "pending"
  /\ \E state \in {"running", "failed"} :
       futures' = [futures EXCEPT ![w] = state]
  /\ UNCHANGED <<env, gcv, script, pc, i, new_text, repairing, extraction,
                 cpu_count, reader, image_files, num_workers, batches, results,
                 raw_data_list, completed_count, yielded, raw_csv, parsing,
                 calling, io, encoding, finishing>>

\* process_batch, lines 388-439: the next image of the batch
ProcessBatchImage(w) ==
  /\ pc = "pool"
  /\ futures[w] = "running"
  /\ Len(results[w]) < Len(batches[w])
  /\ \E img_path \in {batches[w][Len(results[w]) + 1]} :
       results' = [results EXCEPT
                     ![w] = Append(@, batch_record(img_path, reader[img_path]))]
  /\ UNCHANGED <<env, gcv, script, pc, i, new_text, repairing, extraction,
                 cpu_count, reader, image_files, num_workers, batches, futures,
                 raw_data_list, completed_count, yielded, raw_csv, parsing,
                 calling, io, encoding, finishing>>

\* process_batch, line 441: the list is returned
ProcessBatchReturn(w) ==
  /\ pc = "pool"
  /\ futures[w] = "running"
  /\ Len(results[w]) = Len(batches[w])
  /\ futures' = [futures EXCEPT ![w] = "finished"]
  /\ UNCHANGED <<env, gcv, script, pc, i, new_text, repairing, extraction,
                 cpu_count, reader, image_files, num_workers, batches, results,
                 raw_data_list, completed_count, yielded, raw_csv, parsing,
                 calling, io, encoding, finishing>>

\* a slip: a future counts as done as soon as its worker has started
future_done_early(state) == state # "pending"

\* as_completed, line 483: a future is done when its call has returned or
\* raised
future_done(state) == state \in {"finished", "failed"}

\* main, lines 483-491: as_completed hands out a future that is done; its
\* list is added to the records, and a failed future adds nothing
Gather(w) ==
  /\ pc = "pool"
  /\ w \notin yielded
  /\ future_done(futures[w])
  /\ yielded' = yielded \cup {w}
  /\ IF futures[w] = "finished"
     THEN /\ raw_data_list' = raw_data_list \o results[w]
          /\ completed_count' = completed_count + Len(results[w])
     ELSE UNCHANGED <<raw_data_list, completed_count>>
  /\ UNCHANGED <<env, gcv, script, pc, i, new_text, repairing, extraction,
                 cpu_count, reader, image_files, num_workers, batches, futures,
                 results, raw_csv, parsing, calling, io, encoding, finishing>>

\* main, lines 493-498: every future was handed out; the records are sorted
\* and written, and sort_values raises KeyError on a table without columns
SaveRaw ==
  /\ pc = "pool"
  /\ yielded = DOMAIN futures
  /\ IF raw_data_list = <<>>
     THEN /\ pc' = "crashed"
          /\ UNCHANGED raw_csv
     ELSE /\ raw_csv' = sort_values(raw_data_list)
          /\ pc' = "saved"
  /\ UNCHANGED <<env, gcv, script, i, new_text, repairing, extraction,
                 cpu_count, reader, image_files, num_workers, batches, futures,
                 results, raw_data_list, completed_count, yielded, parsing,
                 calling, io, encoding, finishing>>

\* main, lines 500-513: every row of the raw table is parsed, and its names
\* and its text are attached to the fields
ParseRows ==
  /\ script = "easyocr"
  /\ pc = "saved"
  /\ final_data_list' =
       [k \in DOMAIN raw_csv |->
          [page |-> raw_csv[k].page,
           box |-> raw_csv[k].box,
           text |-> raw_csv[k].text,
           f |-> IF easyocr_parse_row(raw_csv[k].text) = <<>> THEN BlankFields
                 ELSE easyocr_parse_row(raw_csv[k].text),
           src |-> raw_csv[k].src]]
  /\ pc' = "parsed"
  /\ UNCHANGED <<env, gcv, script, i, new_text, repairing, extraction, batching,
                 parsing, calling, io, encoding, output_file>>

\* main, lines 515-529: the columns are completed and ordered, the rows are
\* sorted again and the table is written
SaveFinal ==
  /\ script = "easyocr"
  /\ pc = "parsed"
  /\ output_file' = sort_values(final_data_list)
  /\ pc' = "done"
  /\ UNCHANGED <<env, gcv, script, i, new_text, repairing, extraction, batching,
                 parsing, calling, io, encoding, final_data_list>>

NextBatch ==
  \/ BatchStart
  \/ \E w \in DOMAIN futures : ProcessBatchStart(w)
  \/ \E w \in DOMAIN futures : ProcessBatchImage(w)
  \/ \E w \in DOMAIN futures : ProcessBatchReturn(w)
  \/ \E w \in DOMAIN futures : Gather(w)
  \/ SaveRaw
  \/ ParseRows
  \/ SaveFinal

\* test_easyocr.py reads the crop folder with a pool of workers
SpecBatch == InitBatch /\ [][NextBatch]_vars

\* ------------------------------------------------------------------------
\* parser.py: the report is parsed into the record table
\* ------------------------------------------------------------------------

\* the rows of the report parser.py is run on
MaxParsed == 2

\* T_FULL with the label of the mother after the father
T_MOTHER == T_FULL \o <<" ", "mata", ":", " ", "sa", "li", "ma">>

\* "0001 করিম 1234567890123 রহিম": a record without labels
T_BARE ==
  <<"0", "0", "0", "1", " ", "ka", "ri", "ma", " ",
    "1", "2", "3", "4", "5", "6", "7", "8", "9", "0", "1", "2", "3", " ",
    "ra", "hi", "ma">>

\* a text of whitespace only
T_BLANK == <<" ", "nl", " ">>

\* the texts a row of the report may hold
ParseTexts == {T_FULL, T_MOTHER, T_BARE, T_NONAME, T_DOB, T_BLANK, <<>>}

InitParser ==
  /\ parsed = Absent
  /\ folder = {}
  /\ gcv = <<>>
  /\ total_pages = 0
  /\ service = {}
  /\ cpu_count = 1
  /\ reader = <<>>
  /\ \E n \in 1..MaxParsed : \E texts \in [1..n -> ParseTexts] :
       report = [k \in 1..n |->
                   [page |-> PageName(k), box |-> BoxFile, text |-> texts[k]]]
  /\ Fresh

\* main, lines 79-98: the report is read
ParserStart ==
  /\ script = "none"
  /\ pc = "idle"
  /\ script' = "parser"
  /\ df' = report
  /\ parsed_data' = <<>>
  /\ i' = 1
  /\ pc' = "rows"
  /\ UNCHANGED <<files, env, gcv, text_map, image_map, bad_rows, gcv_queue,
                 confirm, new_text, msg, calls, told, tier1, written, answer,
                 hist, extraction, batching, calling, io, encoding,
                 finishing>>

\* main, lines 100-110: one row is parsed
ParserRow ==
  /\ script = "parser"
  /\ pc = "rows"
  /\ i <= Len(df)
  /\ parsed_data' =
       Append(parsed_data,
              [page |-> df[i].page, box |-> df[i].box,
               f |-> parse_bengali_row(df[i].text)])
  /\ i' = i + 1
  /\ UNCHANGED <<files, env, gcv, script, pc, df, text_map, image_map, bad_rows,
                 gcv_queue, confirm, new_text, msg, calls, told, tier1, written,
                 answer, hist, extraction, batching, calling, io, encoding,
                 finishing>>

\* main, lines 112-121: the table is written, a cell no row has a value for
\* is left empty; final_df[cols] raises KeyError when no row has the fields
ParserSave ==
  /\ script = "parser"
  /\ pc = "rows"
  /\ i > Len(df)
  /\ IF \A k \in DOMAIN parsed_data : parsed_data[k].f = <<>>
     THEN /\ pc' = "crashed"
          /\ UNCHANGED parsed
     ELSE /\ parsed' =
               [k \in DOMAIN parsed_data |->
                  [page |-> parsed_data[k].page,
                   box |-> parsed_data[k].box,
                   f |-> IF parsed_data[k].f = <<>> THEN BlankFields
                         ELSE parsed_data[k].f]]
          /\ pc' = "done"
  /\ UNCHANGED <<perfected, ultimate, env, gcv, script, df, text_map, image_map,
                 bad_rows, i, gcv_queue, confirm, new_text, msg, calls, told,
                 tier1, written, answer, hist, extraction, batching,
                 parsed_data, calling, io, encoding, finishing>>

NextParser ==
  \/ ParserStart
  \/ ParserRow
  \/ ParserSave

\* parser.py parses the report
SpecParser == InitParser /\ [][NextParser]_vars

\* ------------------------------------------------------------------------
\* The parsers called on a text
\* ------------------------------------------------------------------------

\* the length of the strings to_bengali_digits is called on
MaxDigits == 3

\* the first n digits of 1234567890123...
DigitRun(n) == [k \in 1..n |-> CHOOSE c \in AsciiDigits : DigitVal[c] = k % 10]

\* The text of a box: a serial, the name, the voter number as a run of
\* digits, the father and the mother, each with its label or without
BoxText(serial, labelled, run, father, mother) ==
  serial
    \o (IF labelled THEN <<"nam", ":", " ">> ELSE <<>>)
    \o <<"ka", "ri", "ma", " ">>
    \o (IF labelled THEN <<"voter", " ", "nong", ":", " ">> ELSE <<>>)
    \o DigitRun(run) \o <<" ">>
    \o (IF father
        THEN (IF labelled THEN <<"pita", ":", " ">> ELSE <<>>) \o <<"ra", "hi", "ma">>
        ELSE <<>>)
    \o (IF mother THEN <<" ", "mata", ":", " ", "sa", "li", "ma">> ELSE <<>>)

\* no serial; 4 ASCII digits; 3 Bengali digits and a dot; 5 digits
Serials ==
  {<<>>, <<"0", "0", "0", "1", " ">>, <<"b0", "b0", "b1", ".", " ">>,
   <<"1", "2", "3", "4", "5", " ">>}

\* the texts with a run of 9, 10 or 13 digits
BoxTexts ==
  {BoxText(serial, labelled, run, father, mother) :
     serial \in Serials, labelled \in BOOLEAN, run \in {9, 10, 13},
     father \in BOOLEAN, mother \in BOOLEAN}

\* the strings of digits, of both scripts, and of other characters
DigitTexts ==
  UNION {[1..n -> {"0", "7", "9", "b3", "ka", " "}] : n \in 0..MaxDigits}

InitTiers ==
  /\ parsed = Absent
  /\ report = Absent
  /\ folder = {}
  /\ gcv = <<>>
  /\ total_pages = 0
  /\ service = {}
  /\ cpu_count = 1
  /\ reader = <<>>
  /\ Fresh

\* what every call leaves alone
CallFrame ==
  UNCHANGED <<files, env, gcv, script, pc, df, text_map, image_map, bad_rows, i,
              gcv_queue, confirm, new_text, msg, calls, told, tier1, written,
              answer, hist, extraction, batching, parsing, io, encoding,
                 finishing>>

\* to_bengali_digits(text), repair.py lines 22-25
CallDigits ==
  /\ tier = "none"
  /\ \E text \in DigitTexts \cup ParseTexts :
       /\ text_in' = text
       /\ parse_out' = to_bengali_digits(text)
  /\ tier' = "digits"
  /\ CallFrame

\* parse_bengali_row(text), parser.py lines 16-77
CallStrict ==
  /\ tier = "none"
  /\ \E text \in BoxTexts \cup ParseTexts :
       /\ text_in' = text
       /\ parse_out' = parse_bengali_row(text)
  /\ tier' = "strict"
  /\ CallFrame

\* "0002 নাম: সালিমা ভোটার: 123 ঠিকানা: ক চট্টগ্রাম খ": the voter label
\* without its second word, and an address that goes on after the city
T_CITY ==
  <<"0", "0", "0", "2", " ", "nam", ":", " ", "sa", "li", "ma", " ",
    "voter", ":", " ", "1", "2", "3", " ", "thikana", ":", " ", "ka", " ",
    "ctg", " ", "kha">>

\* parse_bengali_row(text), test_easyocr.py lines 308-372
CallEasy ==
  /\ tier = "none"
  /\ \E text \in BoxTexts \cup ParseTexts \cup {T_CITY} :
       /\ text_in' = text
       /\ parse_out' = easyocr_parse_row(text)
  /\ tier' = "easyocr"
  /\ CallFrame

\* robust_parse(raw_text), repair.py lines 34-78
CallLenient ==
  /\ tier = "none"
  /\ \E text \in BoxTexts \cup ParseTexts :
       /\ text_in' = text
       /\ parse_out' = robust_parse(text)
  /\ tier' = "lenient"
  /\ CallFrame

\* blind_parse(raw_text), final_repair.py lines 58-112
CallAnchored ==
  /\ tier = "none"
  /\ \E text \in BoxTexts \cup ParseTexts :
       /\ text_in' = text
       /\ parse_out' = blind_parse(text)
  /\ tier' = "anchored"
  /\ CallFrame

\* parse_with_regex(text), extractor.py lines 63-122
CallRegex ==
  /\ tier = "none"
  /\ \E text \in BoxTexts \cup ParseTexts :
       /\ text_in' = text
       /\ parse_out' = parse_with_regex(text)
  /\ tier' = "regex"
  /\ CallFrame

NextTiers ==
  \/ CallDigits
  \/ CallStrict
  \/ CallEasy
  \/ CallLenient
  \/ CallAnchored
  \/ CallRegex

\* one parser is called on one text
SpecTiers == InitTiers /\ [][NextTiers]_vars

\* ------------------------------------------------------------------------
\* Properties of the cascade
\* ------------------------------------------------------------------------

\* a mandatory field of the row is empty
Unresolved(row) == row.f["Name"] = <<>> \/ row.f["Voter No"] = <<>>

\* the rows of the Level 2 queue
Queued == {gcv_queue[n][1] : n \in 1..Len(gcv_queue)}

\* the rows a vision call was issued for
Called == {calls[n] : n \in 1..Len(calls)}

\* the crop folder holds no image of the row
NoCrop(row) == <<row.page, BoxFile>> \notin folder

\* the records the cascade produced
Produced ==
  CASE written = "ultimate" -> ultimate
    [] written = "perfected" -> perfected
    [] written = "parsed" -> parsed

\* C1: in every step of Level 1, of Level 2 and of the final sweep, a field
\* of a record that is not empty before the step has the same value after it.
C1_FillBlanksOnly ==
  [][(pc \in {"level1", "level2", "sweep"}) =>
       (\A k \in DOMAIN df : \A c \in FieldNames :
          (df[k].f[c] # <<>>) => (df'[k].f[c] = df[k].f[c]))]_vars

\* C2: when the cascade has run a second time on the records its first run
\* produced, with the same report, the same images, the same answers of the
\* vision service and of the operator, the records it produces are the ones
\* it was given.
C2_Idempotent ==
  (reruns >= 1 /\ pc = "done" /\ script = "final" /\ answer = prev_answer)
    => Produced = parsed

\* C4: a vision call has been issued in a run only if the operator was told
\* the size of the queue in that run and answered y or yes.
C4_ConfirmedBeforePaid ==
  calls # <<>> => (told >= 1 /\ confirm \in {"y", "yes"})

\* C5: while repair.py has issued a vision call, Level 1 has looked up every
\* record of its input that has a key and misses a mandatory field.
C5_Tier1BeforeAnyTier2 ==
  (script = "repair" /\ calls # <<>>) =>
    \A k \in DOMAIN parsed :
      (HasKey(parsed[k]) /\ Unresolved(parsed[k])) => k \in tier1

\* C5: two records went through Level 1 and a vision call was issued
C5_Witness ==
  script = "repair" /\ calls # <<>> /\ Cardinality(tier1) >= 2

\* C6: every record a vision call was issued for, by repair.py or by
\* final_repair.py, was looked up in the report by Level 1 before.
C6_Tier1BeforeTier2 == Called \subseteq tier1

\* C6: the sweep called the service for a record the report has no line of
C6_Witness ==
  /\ script = "final"
  /\ \E k \in Called : k \in tier1 /\ RowKey(df[k]) \notin DOMAIN build_text_map(report)

\* C7: during and after Level 1, a record that Level 1 has looked up is in
\* the queue exactly if one of its mandatory fields is still empty, and only
\* such records are in the queue.
C7_QueuedIffUnresolved ==
  pc = "level1" =>
    /\ Queued \subseteq tier1
    /\ \A k \in tier1 : (k \in Queued) <=> Unresolved(df[k])

\* C7: Level 1 is over, one record is resolved and another one is queued
\* although Level 1 filled a field of it
C7_Witness ==
  /\ pc = "level1"
  /\ i > Len(bad_rows)
  /\ \E k \in tier1 : k \notin Queued
  /\ \E k \in Queued : df[k].f["DOB"] # <<>>

\* C8: a vision call that returns the empty text, the service having
\* answered nothing or the call having failed, changes no field of any record.
C8_EmptyResponseKeepsFields ==
  [][(Len(calls') = Len(calls) + 1 /\ new_text' = <<>>) => df' = df]_vars

\* C9: a step of Level 2 or of the sweep for a record with a key whose crop
\* is not in the folder issues no call, changes no field and goes on to the
\* pause before the next record.
C9_NoImageNoCall ==
  [][/\ (pc = "level2" /\ NoCrop(df[gcv_queue[i][1]])) =>
          (calls' = calls /\ gcv' = gcv /\ df' = df /\ pc' = "sleep" /\ i' = i)
     /\ (pc = "sweep" /\ HasKey(df[bad_rows[i]]) /\ NoCrop(df[bad_rows[i]])) =>
          (calls' = calls /\ gcv' = gcv /\ df' = df /\ pc' = "fsleep" /\ i' = i)]_vars

\* C9: Level 2 found no image for a record and another record waits
C9_Witness ==
  /\ pc = "sleep"
  /\ msg = "image_not_found"
  /\ NoCrop(df[gcv_queue[i][1]])
  /\ i < Len(gcv_queue)

\* C3 as stated: a record is OK exactly if its Name and its Voter No are
\* both filled.
C3_OkIffMandatory ==
  \A n \in 1..Len(all_data) :
    (all_data[n].Status = "OK") <=>
      (all_data[n].f["Name"] # <<>> /\ all_data[n].f["Voter No"] # <<>>)

\* C3, amended: a record is OK exactly if at most two of its Serial, Name,
\* Voter No, Mother, DOB and Address are empty, and flagged for review
\* otherwise.
C3_OkIffAtMostTwoMissing ==
  \A n \in 1..Len(all_data) :
    /\ all_data[n].Status \in {"OK", "Review Needed"}
    /\ (all_data[n].Status = "OK") <=>
         (Cardinality({k \in {"Serial", "Name", "Voter No", "Mother", "DOB", "Address"} :
                         all_data[n].f[k] = <<>>}) <= 2)

\* C3: a record without a Name is OK, and one with Name and Voter No is
\* flagged
C3_Witness ==
  /\ \E n \in 1..Len(all_data) :
       all_data[n].Status = "OK" /\ all_data[n].f["Name"] = <<>>
  /\ \E n \in 1..Len(all_data) :
       /\ all_data[n].Status = "Review Needed"
       /\ all_data[n].f["Name"] # <<>>
       /\ all_data[n].f["Voter No"] # <<>>

\* C10: a line of the report for an image whose call failed holds the empty
\* text.
C10_FailureGivesEmptyText ==
  script = "test-gcv" =>
    \A n \in 1..Len(report) :
      gcv[<<report[n].page, report[n].box>>].kind \in {"exception", "empty"}
        => report[n].text = <<>>

\* the image Level 2 of repair.py asks the service about at position i
QueuedImage == image_map[<<gcv_queue[i][2], gcv_queue[i][3]>>]

\* C11: a step of Level 2 whose vision call raises leaves the empty text,
\* changes no record, prints the message of an empty response and goes to the
\* pause before the next record of the queue; and once Level 2 has started,
\* repair.py comes to its end with the whole queue gone through and the
\* records saved, whatever the calls did.
C11_FailedCallIsEmpty ==
  /\ [][(/\ script = "repair"
          /\ pc = "level2"
          /\ Len(calls') = Len(calls) + 1
          /\ gcv'[QueuedImage].kind = "exception")
          => (/\ new_text' = <<>>
              /\ df' = df
              /\ msg' = "gcv_empty"
              /\ pc' = "sleep"
              /\ i' = i
              /\ gcv_queue' = gcv_queue)]_vars
  /\ ((script = "repair" /\ pc = "level2")
        ~> (/\ script = "repair"
            /\ pc = "done"
            /\ i > Len(gcv_queue)
            /\ written = "perfected"
            /\ perfected = df))

\* C11: repair.py has saved after two calls, the first of which raised while
\* the second returned a text
C11_Witness ==
  /\ script = "repair"
  /\ pc = "done"
  /\ written = "perfected"
  /\ Len(calls) = 2
  /\ gcv[image_map[RowKey(df[calls[1]])]].kind = "exception"
  /\ gcv[image_map[RowKey(df[calls[2]])]].kind = "text"

\* C12: in a run of repair.py or of final_repair.py, a Level 1 step looks up
\* a record Level 1 has not looked up before in that run, and a vision call is
\* issued for a record none was issued for before in that run; and both
\* scripts come to their end.
C12_OneAttemptEachAndEnd ==
  /\ [][/\ ((pc = "level1" /\ i' = i + 1 /\ HasKey(df[bad_rows[i]]))
               => (bad_rows[i] \notin tier1 /\ tier1' = tier1 \cup {bad_rows[i]}))
         /\ ((Len(calls') = Len(calls) + 1)
               => (calls'[Len(calls')] \notin Called))]_vars
  /\ <>(script = "repair" /\ pc = "done")
  /\ <>(script = "final" /\ pc = "done")

\* C12: repair.py has ended after both records went through Level 1 and
\* through a vision call
C12_Witness ==
  /\ script = "repair"
  /\ pc = "done"
  /\ Cardinality(tier1) = 2
  /\ Len(calls) = 2
  /\ Cardinality(Called) = 2

\* C13: a step issues at most one vision call, and it issues one only when
\* the pause has been taken since the call before it, in repair.py and in
\* final_repair.py.
C13_PauseBetweenCalls ==
  [][/\ Len(calls') <= Len(calls) + 1
     /\ ((Len(calls') = Len(calls) + 1) => (paused /\ ~paused'))]_vars

\* C13: the second call of a run of repair.py has just been issued
C13_Witness ==
  /\ script = "repair"
  /\ Len(calls) = 2
  /\ ~paused

\* the keys of the records of a table, in the order of the table
Keys(table) == [n \in 1..Len(table) |-> <<table[n].Page, table[n].Box>>]

\* the keys of the boxes of the pages of the PDF after the two covers
AllBoxes ==
  UNION {{<<p, b>> : b \in 1..Boxes(p - 1)} : p \in 3..total_pages}

\* the highest page of the records of a table
LastPage(table) == SetMax({table[n].Page : n \in 1..Len(table)})

\* this run cropped no page up to page P, all the pages after P once the
\* loop is over, and the records it loaded are still the first of all_data
ResumedAfter(P) ==
  /\ visited \subseteq (P + 1)..total_pages
  /\ (pc \in {"final", "done"}) => (visited = (P + 1)..total_pages)
  /\ Len(all_data) >= Len(loaded)
  /\ SubSeq(all_data, 1, Len(loaded)) = loaded

\* C14: whenever OUTPUT_CSV changes, also when the run is stopped during a
\* save, it holds afterwards the complete record set that the save writes.
C14_SaveAtomic ==
  [][(voters_csv' # voters_csv) => (voters_csv' = Saving)]_vars

\* C16: when a run of extractor.py has ended, whatever runs were stopped
\* before it, OUTPUT_CSV holds one record for every box of every page after
\* the covers and no two records with the same page and box.
C16_OneRecordPerBox ==
  (script = "extractor" /\ pc = "done") =>
    /\ {Keys(voters_csv)[n] : n \in 1..Len(voters_csv)} = AllBoxes
    /\ Len(voters_csv) = Cardinality(AllBoxes)

\* C15: a run of extractor.py that found records in OUTPUT_CSV, the highest
\* page of which is P, crops the pages P+1 up to the last page and no other,
\* and keeps the records it loaded, unchanged and in their order, in front of
\* the ones it adds.
C15_ResumeAfterLastPage ==
  (script = "extractor" /\ pc \in {"page", "box", "final", "done"} /\ loaded # <<>>)
    => ResumedAfter(LastPage(loaded))

\* C15: a run that loaded records has ended and has cropped two pages
C15_Witness ==
  /\ script = "extractor"
  /\ pc = "done"
  /\ loaded # <<>>
  /\ Cardinality(visited) = 2
  /\ Len(voters_csv) > Len(loaded)

\* C18: once the folder is indexed, a made-up image whose directory has p
\* and whose file name has b as its first run of digits is the entry of the
\* key (p, b), and so is the file crop-all.py wrote for box b of page p.
C18_KeyRoundTrip ==
  (script = "index" /\ pc = "done") =>
    /\ \A p \in 0..MaxKey, b \in 0..MaxKey, vp \in Variants, vb \in Variants :
         (Locator(p, vp, b, vb) \in folder) =>
           /\ <<p, b>> \in DOMAIN image_map
           /\ image_map[<<p, b>>] = Locator(p, vp, b, vb)
    /\ \A path \in folder :
         \A page_no \in 2..(total_pages - 1) : \A box_count \in 1..CropGrid(page_no) :
           (path = <<crop_page_dir(page_no), crop_fname(box_count)>>) =>
             /\ <<page_no + 1, box_count>> \in DOMAIN image_map
             /\ image_map[<<page_no + 1, box_count>>] = path

\* C18: the last box of page 4, as crop-all.py wrote it, is indexed
C18_Witness ==
  /\ script = "index"
  /\ pc = "done"
  /\ <<crop_page_dir(3), crop_fname(18)>> \in folder
  /\ <<4, 18>> \in DOMAIN image_map


\* the key of the image can be derived: its directory and its name hold a
\* number each
Keyed(img_path) == HasKey([page |-> img_path[1], box |-> img_path[2]])

\* the records the workers and main() hold, and the ones written
BatchRecords ==
  UNION {{results[w][k] : k \in DOMAIN results[w]} : w \in DOMAIN results}
    \cup {raw_data_list[k] : k \in DOMAIN raw_data_list}
    \cup (IF raw_csv = Absent THEN {} ELSE {raw_csv[k] : k \in DOMAIN raw_csv})

\* C17: an image whose key cannot be derived is skipped; no record is made
\* for it under any key.
C17_KeylessSkipped == \A r \in BatchRecords : Keyed(r.src)

\* the batch sizes and the pool sizes the split is computed for
MaxTotal == 9

MaxPool == 5

\* the lists of a list, one after the other
RECURSIVE Concat(_)
Concat(lists) ==
  IF lists = <<>> THEN <<>> ELSE lists[1] \o Concat(Tail(lists))

\* the chunks are at most workers many, none is empty, and one after the
\* other they are the list: every element is in exactly one chunk
Partitions(chunks, list, workers) ==
  /\ Len(chunks) <= workers
  /\ \A k \in DOMAIN chunks : chunks[k] # <<>>
  /\ Concat(chunks) = list

\* C19: the images are split into at most N chunks that are disjoint and
\* hold every image exactly once, for every batch of at least 1 image and
\* every N of at least 1; a step of a worker adds one record, made from the
\* next image of its own batch, to its own list and changes no other list.
C19_DisjointChunksNoSharing ==
  /\ \A total \in 1..MaxTotal : \A workers \in 1..MaxPool :
       Partitions(split([k \in 1..total |-> k], chunk_size(total, workers)),
                  [k \in 1..total |-> k], workers)
  /\ []((script = "easyocr" /\ pc \in {"pool", "saved", "crashed"}) =>
          /\ Partitions(batches, image_files, num_workers)
          /\ \A k, n \in DOMAIN image_files :
               (image_files[k] = image_files[n]) => (k = n))
  /\ [][\A w \in DOMAIN results :
          (results'[w] # results[w]) =>
            /\ results'[w] =
                 Append(results[w],
                        batch_record(batches[w][Len(results[w]) + 1],
                                     reader[batches[w][Len(results[w]) + 1]]))
            /\ \A v \in DOMAIN results \ {w} : results'[v] = results[v]
            /\ raw_data_list' = raw_data_list]_vars

\* C19: three images are split between two workers, and both workers are in
\* the middle of their batches at the same time
C19_Witness ==
  /\ pc = "pool"
  /\ Len(image_files) = 3
  /\ num_workers = 2
  /\ Len(batches) = 2
  /\ futures = <<"running", "running">>
  /\ Len(results[1]) = 1
  /\ Len(results[2]) = 1

\* C20, as stated: no worker's results are added to the collection while
\* another worker is still running.
C20_MergeAfterAllComplete ==
  [][(raw_data_list' # raw_data_list) =>
       \A w \in DOMAIN futures : future_done(futures[w])]_vars

\* C20, amended: the results of a worker are added to the collection only
\* after that worker has returned its whole batch, one worker at a time and
\* each worker once, and the collection is sorted and saved only after every
\* worker is done and was gathered.
C20_MergeAfterOwnBatch ==
  /\ [][/\ \A w \in yielded' \ yielded :
             /\ futures[w] \in {"finished", "failed"}
             /\ (futures[w] = "finished") => (Len(results[w]) = Len(batches[w]))
             /\ raw_data_list' =
                  raw_data_list \o (IF futures[w] = "finished" THEN results[w]
                                    ELSE <<>>)
        /\ (raw_data_list' # raw_data_list) =>
             (Cardinality(yielded' \ yielded) = 1)]_vars
  /\ [](pc \in {"saved", "crashed"} =>
          /\ yielded = DOMAIN futures
          /\ \A w \in DOMAIN futures : futures[w] \in {"finished", "failed"})
  /\ [][(raw_csv' # raw_csv) =>
          /\ yielded = DOMAIN futures
          /\ raw_csv' = sort_values(raw_data_list)]_vars

\* C20: the records of the second worker are in the collection while the
\* first worker is still at its batch
C20_Witness ==
  /\ pc = "pool"
  /\ Len(futures) = 2
  /\ futures[1] = "running"
  /\ yielded = {2}
  /\ raw_data_list = results[2]
  /\ raw_data_list # <<>>

\* the strict parse of the row gave the serial, the name and the voter
\* number of the sample texts, the digits normalized
ScenarioHead(row) ==
  /\ row.f["Serial"] = <<"b0", "b0", "b0", "b1">>
  /\ row.f["Name"] = <<"ka", "ri", "ma">>
  /\ row.f["Voter No"] =
       <<"b1", "b2", "b3", "b4", "b5", "b6", "b7", "b8", "b9", "b0", "b1",
         "b2", "b3">>

\* C22, as stated: the strict parse of "0001 <name>: X <voter no>:
\* 1234567890123 <father>: Y" returns the serial, the name, the voter number
\* and the father, the digits normalized, none of the four empty.
C22_StrictScenario ==
  \A k \in DOMAIN parsed_data :
    (script = "parser" /\ df[k].text = T_FULL) =>
      /\ ScenarioHead(parsed_data[k])
      /\ parsed_data[k].f["Father/Husband"] = <<"ra", "hi", "ma">>

\* C22, amended: the strict parse captures a field up to the one label
\* that follows it in the layout of a box; of the text above it returns the
\* serial, the name and the voter number, the digits normalized, and no
\* father, and it returns the father once the label of the mother follows.
C22_StrictNeedsNextLabel ==
  \A k \in DOMAIN parsed_data :
    /\ (script = "parser" /\ df[k].text = T_FULL) =>
         /\ ScenarioHead(parsed_data[k])
         /\ parsed_data[k].f["Father/Husband"] = <<>>
    /\ (script = "parser" /\ df[k].text = T_MOTHER) =>
         /\ ScenarioHead(parsed_data[k])
         /\ parsed_data[k].f["Father/Husband"] = <<"ra", "hi", "ma">>
         /\ parsed_data[k].f["Mother"] = <<>>

\* C22: the table is written with a row of each of the two texts
C22_Witness ==
  /\ script = "parser"
  /\ pc = "done"
  /\ Len(df) = 2
  /\ df[1].text = T_FULL
  /\ df[2].text = T_MOTHER
  /\ parsed[1].f["Father/Husband"] = <<>>
  /\ parsed[2].f["Father/Husband"] = <<"ra", "hi", "ma">>

\* the texts without labels: a serial of 3 or 4 digits, the name, a run of
\* 10 or 13 digits, the father
BareTexts ==
  {BoxText(serial, FALSE, run, TRUE, FALSE) :
     serial \in {<<"0", "0", "0", "1", " ">>, <<"b0", "b0", "b1", ".", " ">>},
     run \in {10, 13}}

\* the field is in the result and not empty
Found(out, field) == field \in DOMAIN out /\ out[field] # <<>>

\* C23: the anchored parse of a text without labels returns the serial, the
\* voter number, the name and the father; the strict parse of the same text
\* returns no name, no voter number and no father.
C23_AnchoredFindsAllFour ==
  /\ (tier = "anchored" /\ text_in \in BareTexts) =>
       \A field \in {"Serial", "Voter No", "Name", "Father/Husband"} :
         Found(parse_out, field)
  /\ (tier = "strict" /\ text_in \in BareTexts) =>
       \A field \in {"Voter No", "Name", "Father/Husband"} :
         ~Found(parse_out, field)

\* C23, amended: the anchored parse of a text without labels returns the
\* voter number, normalized, the name between the serial and the number, and
\* the father after the number, and no serial at all; the strict parse of
\* the same text returns the serial alone.
C23_AnchoredFindsThree ==
  /\ (tier = "anchored" /\ text_in \in BareTexts) =>
       /\ DOMAIN parse_out = {"Voter No", "Name", "Father/Husband"}
       /\ Len(parse_out["Voter No"]) \in {10, 13}
       /\ \A k \in DOMAIN parse_out["Voter No"] :
            parse_out["Voter No"][k] \in BnDigits
       /\ parse_out["Name"] = <<"ka", "ri", "ma">>
       /\ parse_out["Father/Husband"] = <<"ra", "hi", "ma">>
  /\ (tier = "strict" /\ text_in \in BareTexts) =>
       /\ parse_out["Serial"] \in {<<"b0", "b0", "b0", "b1">>, <<"b0", "b0", "b1">>}
       /\ \A field \in FieldNames \ {"Serial"} : parse_out[field] = <<>>

\* C23: the anchored parser has been called on "0001 <name> <13 digits>
\* <father>"
C23_Witness ==
  /\ tier = "anchored"
  /\ text_in = T_BARE
  /\ parse_out["Name"] = <<"ka", "ri", "ma">>
  /\ "Serial" \notin DOMAIN parse_out

\* C24: digit normalization gives a string of the same length in which each
\* ASCII digit is the Bengali digit of the same value and every other
\* character is unchanged, and normalizing the result again changes nothing.
C24_DigitsNormalized ==
  (tier = "digits") =>
    /\ Len(parse_out) = Len(text_in)
    /\ \A k \in 1..Len(text_in) :
         IF text_in[k] \in AsciiDigits
         THEN /\ parse_out[k] \in BnDigits
              /\ DigitVal[parse_out[k]] = DigitVal[text_in[k]]
         ELSE parse_out[k] = text_in[k]
    /\ to_bengali_digits(parse_out) = parse_out

\* C24: a string with an ASCII digit after a character that is none, and a
\* Bengali digit, was normalized
C24_Witness ==
  /\ tier = "digits"
  /\ text_in = <<"ka", "7", "b3">>
  /\ parse_out = <<"ka", "b7", "b3">>

\* C28, what the code does: the missing list of parse_with_regex holds the
\* empty fields among Serial, Name, Voter No, Mother, DOB and Address; for a
\* blank text every field is empty and those six are reported; the strict
\* parser reports nothing and returns no field at all for a blank text.
C28_MissingIsEmptyChecked ==
  /\ (tier = "regex") =>
       /\ DOMAIN parse_out.data = FieldNames
       /\ parse_out.missing =
            {k \in FieldNames \ {"Father/Husband", "Occupation"} :
               parse_out.data[k] = <<>>}
       /\ (Strip(text_in) = <<>>) =>
            /\ \A k \in FieldNames : parse_out.data[k] = <<>>
            /\ parse_out.missing = FieldNames \ {"Father/Husband", "Occupation"}
  /\ (tier = "strict" /\ Strip(text_in) = <<>>) => (parse_out = <<>>)

\* C28: parse_with_regex has been called on a text without a father, and
\* the father is not reported
C28_Witness ==
  /\ tier = "regex"
  /\ parse_out.data["Father/Husband"] = <<>>
  /\ parse_out.data["Name"] # <<>>
  /\ "Name" \notin parse_out.missing
  /\ "Father/Husband" \notin parse_out.missing

\* C28: the missing set of a parse holds exactly the names of the fields
\* whose value is empty; for an empty or blank text no field has a value and
\* every field is reported missing.
C28_MissingIsEmptyFields ==
  /\ (tier = "regex") =>
       /\ parse_out.missing = {k \in FieldNames : parse_out.data[k] = <<>>}
       /\ (Strip(text_in) = <<>>) =>
            /\ \A k \in FieldNames : parse_out.data[k] = <<>>
            /\ parse_out.missing = FieldNames
  /\ (tier = "strict" /\ Strip(text_in) = <<>>) => (parse_out = <<>>)

\* C21, as stated: the extraction pass has one row for every input image,
\* whichever images or workers fail, and it always reaches the save.
C21_OneRowPerImage ==
  (script = "easyocr") =>
    /\ pc # "crashed"
    /\ (pc = "pool" /\ yielded = DOMAIN futures) =>
         Len(raw_data_list) = Len(image_files)
    /\ (pc = "saved") => Len(raw_csv) = Len(image_files)

BareCases ==
  {[kind |-> "ok", rep |-> NoLine, img |-> FALSE],
   [kind |-> "novoter", rep |-> NoLine, img |-> TRUE],
   [kind |-> "noname", rep |-> Line(T_BARE), img |-> TRUE],
   [kind |-> "noname", rep |-> Line(T_FULL), img |-> FALSE]}

InitBare ==
  \E cases \in [1..MaxRows -> BareCases] :
    /\ parsed = [k \in 1..MaxRows |-> RowOf(cases[k].kind, k)]
    /\ report = ReportOf(cases)
    /\ folder = {<<PageName(k), IF cases[k].img THEN BoxFile ELSE BoxNote>> :
                   k \in 1..MaxRows}
    /\ gcv = [path \in folder |-> NotAsked]
    /\ total_pages = 0
    /\ service = {}
    /\ cpu_count = 1
    /\ reader = <<>>
    /\ Fresh

\* one run of the cascade on such a table
SpecBare == InitBare /\ [][Next]_vars

\* Level 1 is at a row with a key and a text in the report, and the lenient
\* parse of the text fills nothing of the row
LenientNothingNew(idx) ==
  /\ pc = "level1"
  /\ ~Level1Done(i, bad_rows)
  /\ idx = bad_rows[i]
  /\ HasKey(df[idx])
  /\ Lookup(text_map, RowKey(df[idx])) # <<>>
  /\ MergeFill(df[idx], robust_parse(Lookup(text_map, RowKey(df[idx]))),
               RepairCols) = df[idx]

\* C26, as stated: when the lenient parse of the cached text yields nothing
\* new for the record, Level 1 merges the anchored parse of the same text
\* into the record before it queues the record for the vision calls.
C26_AnchoredInTier1 ==
  [][\A idx \in DOMAIN df :
       LenientNothingNew(idx) =>
         df'[idx] = MergeFill(df[idx],
                              blind_parse(Lookup(text_map, RowKey(df[idx]))),
                              RepairCols)]_vars

\* C26, amended: when the lenient parse of the cached text yields nothing
\* new for the record, Level 1 leaves the record as it is and queues it for
\* the vision calls at once; no other parse is run on the cached text.
C26_LenientOnlyInTier1 ==
  [][\A idx \in DOMAIN df :
       LenientNothingNew(idx) =>
         /\ df' = df
         /\ gcv_queue' =
              Append(gcv_queue, <<idx, RowKey(df[idx])[1], RowKey(df[idx])[2]>>)]_vars

\* C26: a row is in the queue with its name still blank although the
\* anchored parse of its report line has a name
C26_Witness ==
  /\ script = "repair"
  /\ pc \in {"level1", "level2", "save"}
  /\ \E n \in DOMAIN gcv_queue :
       /\ gcv_queue[n][1] \in tier1
       /\ df[gcv_queue[n][1]].f["Name"] = <<>>
       /\ Lookup(text_map, RowKey(df[gcv_queue[n][1]])) = T_BARE
       /\ blind_parse(T_BARE)["Name"] = <<"ka", "ri", "ma">>
       /\ MergeFill(df[gcv_queue[n][1]], robust_parse(T_BARE), RepairCols) =
            df[gcv_queue[n][1]]

\* C27, as stated: the merge of Level 1 fills every field that is blank in
\* the record and that the parse returned a value for, the serial and the
\* occupation included; no found value for a blank field is discarded.
C27_MergeFillsEveryBlank ==
  [][\A idx \in DOMAIN df :
       (/\ pc = "level1"
        /\ ~Level1Done(i, bad_rows)
        /\ idx = bad_rows[i]
        /\ HasKey(df[idx])
        /\ Lookup(text_map, RowKey(df[idx])) # <<>>) =>
         \A c \in FieldNames :
           (/\ df[idx].f[c] = <<>>
            /\ c \in DOMAIN robust_parse(Lookup(text_map, RowKey(df[idx])))) =>
             df'[idx].f[c] = robust_parse(Lookup(text_map, RowKey(df[idx])))[c]]_vars

\* ------------------------------------------------------------------------
\* app.py: _jpeg_b64_under_limit
\* ------------------------------------------------------------------------

\* the widest page image and the highest one that are tried
MaxWidth == 3200

MaxHeight == 3508

\* max_bytes: int = 3_700_000
default_max_bytes == 3700000

\* quality = 75
first_quality == 75

\* "or quality <= 35"
last_quality == 35

\* quality -= 10
quality_step == 10

\* max_w = 1600
max_w == 1600

\* the page images: narrower than max_w, as wide, one pixel wider, wider;
\* one pixel high, and higher
Images ==
  {[w |-> w, h |-> h] : w \in {max_w \div 2, max_w, max_w + 1, MaxWidth},
                        h \in {1, 1000, MaxHeight}}

\* the limits a caller gives: the default and a tenth of it
Limits == {default_max_bytes, default_max_bytes \div 10}

\* lines 54-57: img.resize((int(img.width * ratio), int(img.height * ratio)))
\* with ratio = max_w / img.width, for an image wider than max_w
quick_downscale(pic) ==
  IF pic.w > max_w
  THEN [w |-> (pic.w * max_w) \div pic.w, h |-> (pic.h * max_w) \div pic.w]
  ELSE pic

\* line 67: img.resize((int(img.width * 0.9), int(img.height * 0.9)))
downscale(pic) == [w |-> (pic.w * 9) \div 10, h |-> (pic.h * 9) \div 10]

\* Image.resize raises ValueError for a width or a height of zero
Resizable(pic) == pic.w > 0 /\ pic.h > 0

\* img.save(buf, format="JPEG", ...): the length of the encoding is the
\* encoder's choice; it is at least one byte and at most three bytes for a
\* pixel and a kilobyte around them.  The lengths next to the limit and
\* the two ends are tried.
EncodedLens(pic, limit) ==
  {n \in {1, limit - 1, limit, limit + 1, 3 * pic.w * pic.h + 1024} :
     1 <= n /\ n <= 3 * pic.w * pic.h + 1024}

\* line 63: if len(b) <= max_bytes or quality <= 35: return
loop_ends(len, limit, q) == len <= limit \/ q <= last_quality

InitJpeg ==
  /\ parsed = Absent
  /\ report = Absent
  /\ folder = {}
  /\ gcv = <<>>
  /\ total_pages = 0
  /\ service = {}
  /\ cpu_count = 1
  /\ reader = <<>>
  /\ Fresh

\* lines 45-57: the copy, the first quality and the quick downscale
JpegStart ==
  /\ script = "none"
  /\ pc = "idle"
  /\ script' = "app"
  /\ \E pil_img \in Images :
       IF Resizable(quick_downscale(pil_img))
       THEN /\ img' = quick_downscale(pil_img)
            /\ pc' = "encode"
       ELSE /\ img' = pil_img
            /\ pc' = "crashed"
  /\ \E limit \in Limits : max_bytes' = limit
  /\ quality' = first_quality
  /\ buf' = 0
  /\ UNCHANGED <<files, env, gcv, df, text_map, image_map, bad_rows, i,
                 gcv_queue, confirm, new_text, msg, calls, told, tier1, written,
                 answer, hist, extraction, batching, parsing, calling, io,
                 finishing>>

\* lines 59-67: one turn of the loop: the image is encoded and returned, or
\* the quality is lowered and the image is made smaller
JpegEncode ==
  /\ script = "app"
  /\ pc = "encode"
  /\ \E len \in EncodedLens(img, max_bytes) :
       /\ buf' = len
       /\ IF loop_ends(len, max_bytes, quality)
          THEN /\ pc' = "returned"
               /\ UNCHANGED <<quality, img>>
          ELSE /\ quality' = quality - quality_step
               /\ IF Resizable(downscale(img))
                  THEN /\ img' = downscale(img)
                       /\ pc' = "encode"
                  ELSE /\ pc' = "crashed"
                       /\ UNCHANGED img
  /\ UNCHANGED <<files, env, gcv, script, df, text_map, image_map, bad_rows, i,
                 gcv_queue, confirm, new_text, msg, calls, told, tier1, written,
                 answer, hist, extraction, batching, parsing, calling, io,
                 max_bytes, finishing>>

NextJpeg ==
  \/ JpegStart
  \/ JpegEncode

\* one call of _jpeg_b64_under_limit
SpecJpeg == InitJpeg /\ [][NextJpeg]_vars

\* C30: the JPEG that _jpeg_b64_under_limit returns is at most max_bytes
\* bytes long.
C30_UnderLimit ==
  (script = "app" /\ pc = "returned") => buf <= max_bytes

\* ------------------------------------------------------------------------
\* The parallel extraction on images with different texts
\* ------------------------------------------------------------------------

\* what reader.readtext reads from one image: one of two texts
TextOutcomes ==
  {[kind |-> "text", list |-> <<<<"sa", "|", "li">>, <<"I", "ma">>>>],
   [kind |-> "text", list |-> <<T_FULL>>]}

InitOrder ==
  /\ parsed = Absent
  /\ report = Absent
  /\ gcv = <<>>
  /\ total_pages = 0
  /\ service = {}
  /\ folder \in {S \in SUBSET BatchFiles : Cardinality(S) <= MaxBatch}
  /\ cpu_count \in 1..(MaxWorkers + 1)
  /\ reader \in [{q \in folder : IsJpgOrPng(q[2])} -> TextOutcomes]
  /\ Fresh

\* test_easyocr.py on such a folder
SpecOrder == InitOrder /\ [][NextBatch]_vars

\* the rows of a table as they are written: the names, the text and, in the
\* parsed table, the fields
Written(rows) ==
  [k \in DOMAIN rows |->
     [page |-> rows[k].page,
      box |-> rows[k].box,
      text |-> rows[k].text,
      f |-> IF "f" \in DOMAIN rows[k] THEN rows[k].f ELSE <<>>]]

\* the records of the workers that finished, in the order of the batches
InBatchOrder ==
  Concat([w \in DOMAIN results |->
            IF futures[w] = "finished" THEN results[w] ELSE <<>>])

\* C29: the raw table and the parsed table, their rows and the order of the
\* rows, are the same for every order in which the batches complete: they
\* are the tables of the run that gathers the batches in their own order.
C29_OrderIndependent ==
  (script = "easyocr" /\ pc \in {"saved", "parsed", "done"}
     /\ raw_csv # Absent) =>
    /\ Written(raw_csv) = Written(sort_values(InBatchOrder))
    /\ (pc = "done") =>
         [k \in DOMAIN output_file |->
            [page |-> output_file[k].page, box |-> output_file[k].box,
             text |-> output_file[k].text]]
           = [k \in DOMAIN raw_csv |->
                [page |-> sort_values(InBatchOrder)[k].page,
                 box |-> sort_values(InBatchOrder)[k].box,
                 text |-> sort_values(InBatchOrder)[k].text]]

=============================================================================
